---- MODULE Spec2Model ----
(***************************************************************************)
(* Verification model of the chat-ai tool-integration layer:               *)
(*   - mcpClient.listTools / mcpClient.callTool and parseSSEResponse       *)
(*     (src/lib/assistant-runtime/mcp-client.ts), checked under SpecMcp;   *)
(*   - MCPClientManager, registerMCPClient(s), getAllMcpTools and          *)
(*     mergeAllTools / createChatHandler, checked under Spec.              *)
(*                                                                         *)
(* Response bodies are sequences of text tokens.  The tokens "data: " and  *)
(* "event:" are the two markers the client searches for; "\n" is the line  *)
(* break; every other token is a piece of text without those substrings.   *)
(***************************************************************************)
EXTENDS Integers, Sequences, FiniteSets, TLC

VARIABLES
    \* ---- mcpClient (one fetch round trip) ----
    mcpOp,        \* "none" | "listTools" | "callTool": the call that produced mcpOut
    mcpUrlSet,    \* whether MCP_SERVER_URL was set for that call
    mcpSent,      \* what the server put on the wire: [doc, framing] or a malformed body
    mcpResp,      \* what fetch() delivered: [rejected, status, contentType, text, readable]
    mcpOut,       \* outcome of the call: [kind |-> "return", value] or [kind |-> "throw", msg]
    \* ---- one chat request (createChatHandler) ----
    pc,           \* position of the request inside createChatHandler / getAllMcpTools
    req,          \* the ChatHandlerOptions of the request
    configs,      \* the integration configs loaded by initializeMCPClients
    catalog,      \* what each tool server would answer to tools()
    manager,      \* the MCPClientManager created for the request
    idx,          \* loop index of getAllMcpTools over clientIds
    clientIds,    \* snapshot taken by manager.listClientIds()
    failed,       \* session ids whose client.tools() threw during this request
    mcpTools,     \* accumulator / result of getAllMcpTools
    allTools,     \* result of mergeAllTools
    frontendOk,   \* whether frontendTools(tools) converted without throwing
    outcome,      \* what createChatHandler produced
    \* ---- calls made on an MCPClientManager by its owner ----
    closed,       \* the connections on which close() resolved
    last,         \* the call that returned last, with its arguments and result
    ops,          \* how many calls have returned
    \* ---- createStreamingResponse ----
    stIn,         \* the options: [text, messageId]
    stOut,        \* the chunks enqueued on the controller, in order
    stClosed,     \* whether controller.close() ran
    \* ---- one request to a chat endpoint ----
    body,         \* what req.json() gives: the parsed body, or a parse failure
    chatOptions,  \* the options the endpoint handed to createChatHandler
    response,     \* the Response the endpoint returned
    \* ---- calls on one manager that overlap at their awaits ----
    tasks         \* per task: the call it makes and how far it has got

mcpVars == <<mcpOp, mcpUrlSet, mcpSent, mcpResp, mcpOut>>
chatVars == <<pc, req, configs, catalog, manager, idx, clientIds, failed,
              mcpTools, allTools, frontendOk, outcome>>
mgrVars == <<closed, last, ops>>
streamVars == <<stIn, stOut, stClosed>>
routeVars == <<body, chatOptions, response>>
raceVars == <<tasks>>
restVars == <<routeVars, raceVars>>
vars == <<mcpVars, chatVars, mgrVars, streamVars, restVars>>

(***************************************************************************)
(* JSON documents.  Every kind of value has its own payload field, so two  *)
(* values of different kinds are different records.  An object is the      *)
(* ordered sequence of its <<key, value>> members.                         *)
(***************************************************************************)
JNull == [jt |-> "null"]
JBool(b) == [jt |-> "bool", bool |-> b]
JNum(n) == [jt |-> "num", num |-> n]
JStr(s) == [jt |-> "str", str |-> s]
JArr(a) == [jt |-> "arr", arr |-> a]
JObj(o) == [jt |-> "obj", obj |-> o]

\* `key in obj`
Has(o, k) == \E i \in 1..Len(o.obj) : o.obj[i][1] = k
\* obj[key] for a key that is present
Get(o, k) == o.obj[CHOOSE i \in 1..Len(o.obj) : o.obj[i][1] = k][2]

\* JavaScript truthiness of a decoded JSON value
Truthy(v) ==
    CASE v.jt = "null" -> FALSE
      [] v.jt = "bool" -> v.bool
      [] v.jt = "num"  -> v.num # 0
      [] v.jt = "str"  -> v.str # <<>>
      [] OTHER         -> TRUE

\* the escapes JSON.stringify writes inside a string literal: a line break
\* becomes the two characters \n and a quote the two characters \"
EscapeString(str) ==
    [i \in 1..Len(str) |->
        CASE str[i] = "\n" -> "\\n"
          [] str[i] = "\"" -> "\\\""
          [] OTHER        -> str[i]]

\* JSON.stringify: the canonical text of a document, as tokens
RECURSIVE Stringify(_)
RECURSIVE StringifyItems(_)
RECURSIVE StringifyMembers(_)
Stringify(v) ==
    CASE v.jt = "null" -> <<"null">>
      [] v.jt = "bool" -> IF v.bool THEN <<"true">> ELSE <<"false">>
      [] v.jt = "num"  -> <<ToString(v.num)>>
      [] v.jt = "str"  -> <<"\"">> \o EscapeString(v.str) \o <<"\"">>
      [] v.jt = "arr"  -> <<"[">> \o StringifyItems(v.arr) \o <<"]">>
      [] v.jt = "obj"  -> <<"{">> \o StringifyMembers(v.obj) \o <<"}">>
StringifyItems(a) ==
    IF a = <<>> THEN <<>>
    ELSE Stringify(Head(a)) \o
         (IF Len(a) > 1 THEN <<",">> ELSE <<>>) \o StringifyItems(Tail(a))
StringifyMembers(m) ==
    IF m = <<>> THEN <<>>
    ELSE <<"\"", Head(m)[1], "\"", ":">> \o Stringify(Head(m)[2]) \o
         (IF Len(m) > 1 THEN <<",">> ELSE <<>>) \o StringifyMembers(Tail(m))

(***************************************************************************)
(* The documents a tool server may send (bounded universe).                *)
(***************************************************************************)
ToolDef(n, d) ==
    JObj(<< <<"name", JStr(<<n>>)>>, <<"description", JStr(d)>> >>)
ToolSearch == ToolDef("search", <<"d1">>)
\* a tool whose description happens to contain the text "data: "
ToolFetch == ToolDef("fetch", <<"returns ", "data: ", "rows">>)

\* values of the envelope's `result` member
ResultValues ==
    { JNull, JBool(FALSE), JNum(0), JStr(<<>>), JStr(<<"ok">>),
      JStr(<<"data: ", "x">>), JStr(<<"event:", "x">>),
      JArr(<<>>), JArr(<<ToolSearch>>), JArr(<<ToolSearch, ToolFetch>>),
      JObj(<<>>),
      JObj(<< <<"tools", JArr(<<>>)>> >>),
      JObj(<< <<"tools", JArr(<<ToolSearch>>)>> >>),
      JObj(<< <<"tools", JArr(<<ToolSearch, ToolFetch>>)>> >>),
      JObj(<< <<"tools", JStr(<<"ok">>)>> >>),
      JObj(<< <<"tools", JNull>> >>),
      JObj(<< <<"content", JStr(<<"ok">>)>> >>),
      JObj(<< <<"result", JStr(<<"ok">>)>> >>),
      JObj(<< <<"result", JNull>> >>),
      JObj(<< <<"result", JArr(<<ToolSearch>>)>> >>),
      JObj(<< <<"result", JObj(<< <<"result", JStr(<<"ok">>)>> >>)>> >>) }

\* values of the envelope's `error` member
ErrorValues ==
    { JNull,
      JObj(<<>>),
      JObj(<< <<"code", JNum(0)>>, <<"message", JStr(<<"boom">>)>> >>),
      JObj(<< <<"code", JNum(-32601)>>, <<"message", JStr(<<>>)>> >>),
      JObj(<< <<"code", JNum(-32601)>>, <<"message", JStr(<<"not found">>)>> >>) }

EnvelopeHead == << <<"jsonrpc", JStr(<<"2.0">>)>>, <<"id", JStr(<<"1">>)>> >>

\* JsonRpcResponse: { jsonrpc, id, result?, error? }
Envelopes ==
    { JObj(EnvelopeHead) }
    \cup { JObj(EnvelopeHead \o << <<"result", r>> >>) : r \in ResultValues }
    \cup { JObj(EnvelopeHead \o << <<"error", e>> >>) : e \in ErrorValues }
    \cup { JObj(EnvelopeHead \o << <<"result", r>>, <<"error", e>> >>) :
             r \in {JNull, JArr(<<ToolSearch>>), JStr(<<"ok">>)}, e \in ErrorValues }

\* every document some body of the model spells out
Docs == Envelopes \cup {JNull, JStr(<<"ok">>), JNum(5)}

(***************************************************************************)
(* Text operations used by the client.                                     *)
(***************************************************************************)
\* text.includes(marker), for the two markers that are tokens of their own
Includes(text, tok) == \E i \in 1..Len(text) : text[i] = tok

\* !text || text.trim().length === 0
IsBlank(text) == \A i \in 1..Len(text) : text[i] \in {" ", "\n"}

\* text.split("\n"): the runs of tokens between line breaks
SplitLines(text) ==
    LET breaks == {i \in 1..Len(text) : text[i] = "\n"}
        \* position of the k-th line break; 0 before the first line and
        \* Len(text) + 1 after the last one
        BreakAt(k) ==
            IF k = 0 THEN 0
            ELSE IF k > Cardinality(breaks) THEN Len(text) + 1
            ELSE CHOOSE i \in breaks : Cardinality({j \in breaks : j < i}) = k - 1
    IN  [k \in 1..(Cardinality(breaks) + 1) |->
            SubSeq(text, BreakAt(k - 1) + 1, BreakAt(k) - 1)]

\* JSON.parse: the document whose text this is, or a SyntaxError
JsonParse(text) ==
    LET m == {d \in Docs : Stringify(d) = text}
    IN  IF m = {} THEN [ok |-> FALSE, err |-> <<"Unexpected token">>]
        ELSE [ok |-> TRUE, doc |-> CHOOSE d \in m : TRUE]

\* parseSSEResponse: JSON-decode the rest of the first line starting "data: "
parseSSEResponse(text) ==
    LET lines == SplitLines(text)
        hits == {i \in 1..Len(lines) : lines[i] # <<>> /\ lines[i][1] = "data: "}
    IN  IF hits = {} THEN [ok |-> FALSE, err |-> <<"No data field found in SSE response">>]
        ELSE LET first == CHOOSE i \in hits : \A j \in hits : i <= j
                 jsonData == Tail(lines[first])
             IN  IF jsonData = <<>>
                 THEN [ok |-> FALSE, err |-> <<"No data field found in SSE response">>]
                 ELSE JsonParse(jsonData)

\* the test that routes a body to parseSSEResponse
LooksLikeSSE(contentType, text) ==
    \/ contentType = "text/event-stream"
    \/ Includes(text, "event:")
    \/ Includes(text, "data: ")

\* the shared "parse JSON or SSE" step of listTools and callTool
DecodeBody(contentType, text) ==
    IF LooksLikeSSE(contentType, text) THEN parseSSEResponse(text)
    ELSE JsonParse(text)

(***************************************************************************)
(* mcpClient.listTools and mcpClient.callTool, as functions of whether     *)
(* MCP_SERVER_URL is set and of what fetch() delivers.                     *)
(***************************************************************************)
Return(v) == [kind |-> "return", value |-> v]
Throw(m) == [kind |-> "throw", msg |-> m]

DefaultErrorCode == -32000
DefaultErrorMessage == <<"Unknown error">>

\* response.ok
ResponseOk(r) == r.status >= 200 /\ r.status <= 299

\* response.statusText
StatusText(status) ==
    CASE status = 404 -> <<"Not Found">>
      [] status = 500 -> <<"Internal Server Error">>
      [] OTHER        -> <<"OK">>

\* a listTools that accepts only the { tools: [...] } shape of `result`
ListToolsFromEnvelopeToolsOnly(doc) ==
    IF doc.jt # "obj" THEN Return(<<>>)
    ELSE IF Has(doc, "error") /\ Truthy(Get(doc, "error")) THEN Return(<<>>)
    ELSE IF ~Has(doc, "result") \/ ~Truthy(Get(doc, "result")) THEN Return(<<>>)
    ELSE LET result == Get(doc, "result")
         IN  IF /\ result.jt = "obj"
                /\ Has(result, "tools")
                /\ Get(result, "tools").jt = "arr"
             THEN Return(Get(result, "tools").arr)
             ELSE Return(<<>>)

\* listTools, from the decoded envelope on (mcp-client.ts 174-202)
ListToolsFromEnvelope(doc) ==
    IF doc.jt = "null" THEN Return(<<>>)            \* TypeError, outer catch
    ELSE IF doc.jt # "obj" THEN Return(<<>>)        \* .error/.result undefined
    ELSE IF Has(doc, "error") /\ Truthy(Get(doc, "error")) THEN Return(<<>>)
    ELSE IF ~Has(doc, "result") \/ ~Truthy(Get(doc, "result")) THEN Return(<<>>)
    ELSE LET result == Get(doc, "result")
         IN  IF result.jt = "arr" THEN Return(result.arr)
             ELSE IF /\ result.jt = "obj"
                     /\ Has(result, "tools")
                     /\ Get(result, "tools").jt = "arr"
                  THEN Return(Get(result, "tools").arr)
             ELSE Return(<<>>)

\* listTools, from reading the body of a success response on
\* (mcp-client.ts 131-172); a body that fails to read lands in the outer catch
ListToolsFromBody(r) ==
    IF ~r.readable THEN Return(<<>>)
    ELSE IF IsBlank(r.text) THEN Return(<<>>)
    ELSE LET parsed == DecodeBody(r.contentType, r.text)
         IN  IF ~parsed.ok THEN Return(<<>>)
             ELSE ListToolsFromEnvelope(parsed.doc)

\* a listTools that raises on a non-success status, as callTool does
listToolsRaisingOnStatus(urlSet, r) ==
    IF ~urlSet THEN Throw(<<"MCP_SERVER_URL is not set. Cannot list tools.">>)
    ELSE IF r.rejected THEN Return(<<>>)
    ELSE IF ~ResponseOk(r)
         THEN Throw(<<"MCP server error: ", ToString(r.status)>>)
    ELSE ListToolsFromBody(r)

\* mcpClient.listTools
listTools(urlSet, r) ==
    IF ~urlSet THEN Throw(<<"MCP_SERVER_URL is not set. Cannot list tools.">>)
    ELSE IF r.rejected THEN Return(<<>>)
    ELSE IF ~ResponseOk(r) THEN Return(<<>>)
    ELSE ListToolsFromBody(r)

\* an error message that leaves the protocol error's code out
ProtocolErrorMessageWithoutCode(error) ==
    <<"MCP tool call error: ">> \o
    (IF error.jt = "obj" /\ Has(error, "message") /\ Truthy(Get(error, "message"))
     THEN Get(error, "message").str ELSE DefaultErrorMessage)

\* the message of the error callTool throws for a JSON-RPC error member
ProtocolErrorMessage(error) ==
    LET errorMessage ==
            IF error.jt = "obj" /\ Has(error, "message") /\ Truthy(Get(error, "message"))
            THEN Get(error, "message").str ELSE DefaultErrorMessage
        errorCode ==
            IF error.jt = "obj" /\ Has(error, "code") /\ Truthy(Get(error, "code"))
            THEN Get(error, "code").num ELSE DefaultErrorCode
    IN  <<"MCP tool call error (", ToString(errorCode), "): ">> \o errorMessage

\* result.result.result... : unwrap as long as there is a nested `result`
RECURSIVE UnwrapAll(_)
UnwrapAll(v) ==
    IF v.jt = "obj" /\ Has(v, "result") THEN UnwrapAll(Get(v, "result")) ELSE v

\* a callTool that unwraps every level of nesting
CallToolFromEnvelopeUnwrapAll(doc) ==
    IF doc.jt = "null" THEN Throw(<<"TypeError: cannot read properties of null">>)
    ELSE IF doc.jt # "obj" THEN Throw(<<"TypeError: cannot use 'in' operator">>)
    ELSE IF Has(doc, "error") /\ Truthy(Get(doc, "error"))
         THEN Throw(ProtocolErrorMessage(Get(doc, "error")))
    ELSE IF Has(doc, "result") THEN Return(UnwrapAll(Get(doc, "result")))
    ELSE Return(JNull)

\* callTool, from the decoded envelope on (mcp-client.ts 296-317)
CallToolFromEnvelope(doc) ==
    IF doc.jt = "null" THEN Throw(<<"TypeError: cannot read properties of null">>)
    ELSE IF doc.jt # "obj" THEN Throw(<<"TypeError: cannot use 'in' operator">>)
    ELSE IF Has(doc, "error") /\ Truthy(Get(doc, "error"))
         THEN Throw(ProtocolErrorMessage(Get(doc, "error")))
    ELSE IF Has(doc, "result")
         THEN LET result == Get(doc, "result")
              IN  IF result.jt = "obj" /\ Has(result, "result")
                  THEN Return(Get(result, "result"))
                  ELSE Return(result)
    ELSE Return(JNull)

\* a callTool that answers null for a body it cannot parse
CallToolFromBodyAbsorbing(r) ==
    IF ~r.readable THEN Throw(<<"body stream error">>)
    ELSE IF IsBlank(r.text) THEN Return(JNull)
    ELSE LET parsed == DecodeBody(r.contentType, r.text)
         IN  IF ~parsed.ok THEN Return(JNull)
             ELSE CallToolFromEnvelope(parsed.doc)

\* callTool, from reading the body of a success response on
\* (mcp-client.ts 258-294)
CallToolFromBody(r) ==
    IF ~r.readable THEN Throw(<<"body stream error">>)
    ELSE IF IsBlank(r.text) THEN Return(JNull)
    ELSE LET parsed == DecodeBody(r.contentType, r.text)
         IN  IF ~parsed.ok
             THEN Throw(<<"Invalid response from MCP server: ">> \o parsed.err)
             ELSE CallToolFromEnvelope(parsed.doc)

\* a callTool whose transport error carries the body text only
callToolWithoutStatus(urlSet, r) ==
    IF ~urlSet THEN Throw(<<"MCP_SERVER_URL is not set. Cannot call tool.">>)
    ELSE IF r.rejected THEN Throw(<<"fetch failed">>)
    ELSE IF ~ResponseOk(r)
         THEN Throw(<<"MCP tool call failed: ">>
                    \o (IF r.readable THEN r.text ELSE StatusText(r.status)))
    ELSE CallToolFromBody(r)

\* mcpClient.callTool
callTool(urlSet, r) ==
    IF ~urlSet THEN Throw(<<"MCP_SERVER_URL is not set. Cannot call tool.">>)
    ELSE IF r.rejected THEN Throw(<<"fetch failed">>)
    ELSE IF ~ResponseOk(r)
         THEN Throw(<<"MCP tool call failed: ", ToString(r.status), " ">>
                    \o (IF r.readable THEN r.text ELSE StatusText(r.status)))
    ELSE CallToolFromBody(r)

(***************************************************************************)
(* What the server and the transport can deliver.                          *)
(***************************************************************************)
\* a document framed as one SSE event: "event: message\ndata: {...}\n\n"
SseFrame(doc) ==
    <<"event:", " message", "\n", "data: ">> \o Stringify(doc) \o <<"\n", "\n">>
\* a document framed as a bare SSE data line
SseDataFrame(doc) == <<"data: ">> \o Stringify(doc) \o <<"\n", "\n">>

Framings == {"json", "sse", "sse-data"}

Frame(doc, framing) ==
    CASE framing = "json"     -> Stringify(doc)
      [] framing = "sse"      -> SseFrame(doc)
      [] framing = "sse-data" -> SseDataFrame(doc)

\* bodies that are no framing of any document
MalformedBodies ==
    { <<>>, <<" ", "\n">>, <<"garbage">>, <<"{", "\"", "jsonrpc", "\"">>,
      <<"event:", " message", "\n", "\n">>,
      <<"event:", " message", "\n", "data: ", "garbage", "\n", "\n">>,
      <<"data: ", "garbage", "\n">>,
      <<"data: ">>,
      <<"<html>", "Bad Gateway", "</html>">> }

Sendable ==
    { [framing |-> f, doc |-> d, body |-> Frame(d, f)] : f \in Framings, d \in Docs }
    \cup { [framing |-> "malformed", doc |-> JNull, body |-> b] : b \in MalformedBodies }

Statuses == {200, 404, 500}
ContentTypes == {"none", "application/json", "text/event-stream"}

\* fetch() rejected (network failure)
RejectedResponse ==
    [rejected |-> TRUE, status |-> 0, contentType |-> "none", text |-> <<>>,
     readable |-> FALSE]

Delivered(sent, status, ct, readable) ==
    [rejected |-> FALSE, status |-> status, contentType |-> ct,
     text |-> sent.body, readable |-> readable]

McpInit ==
    /\ mcpOp = "none"
    /\ mcpUrlSet \in BOOLEAN
    /\ mcpSent = [framing |-> "malformed", doc |-> JNull, body |-> <<>>]
    /\ mcpResp = RejectedResponse
    /\ mcpOut = Return(JNull)

\* one round trip: the server answers, the transport delivers (or not)
McpExchange(op) ==
    /\ mcpOp = "none"
    /\ mcpOp' = op
    /\ mcpUrlSet' = mcpUrlSet
    /\ \E sent \in Sendable :
         /\ mcpSent' = sent
         /\ \/ mcpResp' = RejectedResponse
            \/ \E st \in Statuses, ct \in ContentTypes, rd \in BOOLEAN :
                 mcpResp' = Delivered(sent, st, ct, rd)

McpListTools ==
    /\ McpExchange("listTools")
    /\ mcpOut' = listTools(mcpUrlSet', mcpResp')
    /\ UNCHANGED <<chatVars, mgrVars, streamVars, restVars>>

McpCallTool ==
    /\ McpExchange("callTool")
    /\ mcpOut' = callTool(mcpUrlSet', mcpResp')
    /\ UNCHANGED <<chatVars, mgrVars, streamVars, restVars>>

McpNext == McpListTools \/ McpCallTool

(***************************************************************************)
(* Tool maps: Record<string, tool>, a function from tool names to tools.   *)
(***************************************************************************)
SessionIds == {"A", "B"}
ToolNames == {"askChatbot", "search"}
MaxConfigs == 2

\* the tool a given origin (a session id, "integrated" or "frontend")
\* defines; its description and its execute callback belong to that origin
Tool(origin) == [origin |-> origin, description |-> <<"described by", origin>>]

EmptyTools == [n \in {} |-> Tool("integrated")]

\* Object.assign(target, source)
ObjectAssign(target, source) ==
    [n \in (DOMAIN target) \cup (DOMAIN source) |->
        IF n \in DOMAIN source THEN source[n] ELSE target[n]]

\* getChatbotTool(): { askChatbot: {...} }
getChatbotTool == [n \in {"askChatbot"} |-> Tool("integrated")]

\* what client.tools() of session s returns when the server lists `names`
ClientTools(s, names) == [n \in names |-> Tool(s)]

\* frontendTools(tools) of @assistant-ui/react-ai-sdk
frontendTools(names) == [n \in names |-> Tool("frontend")]

\* mergeFrontendTools: skipped unless `tools` is a plain object; a throwing
\* conversion is caught and leaves the target as it was
mergeFrontendTools(tools, target, convertOk) ==
    IF tools.shape # "object" THEN target
    ELSE IF ~convertOk THEN target
    ELSE ObjectAssign(target, frontendTools(tools.names))

\* mergeMcpTools
mergeMcpTools(mcp, target) == ObjectAssign(target, mcp)

\* a merge that applies the frontend tools last
mergeAllToolsFrontendLast(tools, mcp, convertOk) ==
    mergeFrontendTools(tools, mergeMcpTools(mcp, EmptyTools), convertOk)

\* mergeAllTools
mergeAllTools(tools, mcp, convertOk) ==
    mergeMcpTools(mcp, mergeFrontendTools(tools, EmptyTools, convertOk))

(***************************************************************************)
(* MCPClientManager: clients is the Map in insertion order.                *)
(***************************************************************************)
TransportTypes == {"http", "sse"}

NewManager == [clients |-> <<>>, defaultClientId |-> "null", opened |-> 0]

\* manager.listClientIds()
listClientIds(m) == [i \in 1..Len(m.clients) |-> m.clients[i].id]

HasClient(m, id) == \E i \in 1..Len(m.clients) : m.clients[i].id = id

\* Map.set: replaces in place when the key exists, appends otherwise
MapSet(clients, entry) ==
    IF \E i \in 1..Len(clients) : clients[i].id = entry.id
    THEN [i \in 1..Len(clients) |->
            IF clients[i].id = entry.id THEN entry ELSE clients[i]]
    ELSE Append(clients, entry)

NoError == [kind |-> "none", adapter |-> "none"]

\* the transport type each adapter hands to experimental_createMCPClient:
\* createHttpMCPClient (http-adapter.ts 22-26) and createSSEMCPClient
\* (sse-adapter.ts 22-26) both pass type: "http"
AdapterTransport(adapter) ==
    CASE adapter = "http" -> "http"
      [] adapter = "sse"  -> "http"

\* one call of an adapter's createXxxMCPClient
ConnectAttempt(adapter, ok) ==
    [adapter |-> adapter, transport |-> AdapterTransport(adapter), ok |-> ok]

\* a registerClient that moves the default only when the config asks for it
registerClientDefaultOnFlagOnly(m, config, connectOk) ==
    IF config.type \notin TransportTypes
    THEN [manager |-> m, threw |-> TRUE,
          error |-> [kind |-> "unsupported", adapter |-> config.type],
          attempts |-> <<>>]
    ELSE IF ~connectOk
    THEN [manager |-> m, threw |-> TRUE,
          error |-> [kind |-> "connect", adapter |-> config.type],
          attempts |-> <<ConnectAttempt(config.type, FALSE)>>]
    ELSE [manager |->
            [clients |-> MapSet(m.clients,
                                [id |-> config.id, via |-> config.type,
                                 conn |-> m.opened + 1]),
             defaultClientId |->
                IF config.setAsDefault THEN config.id ELSE m.defaultClientId,
             opened |-> m.opened + 1],
          threw |-> FALSE, error |-> NoError,
          attempts |-> <<ConnectAttempt(config.type, TRUE)>>]

\* a registerClient that moves the default pointer before it connects
registerClientDefaultFirst(m, config, connectOk) ==
    LET pointed == [m EXCEPT !.defaultClientId =
                        IF config.setAsDefault \/ m.defaultClientId = "null"
                        THEN config.id ELSE m.defaultClientId]
    IN  IF config.type \notin TransportTypes
        THEN [manager |-> pointed, threw |-> TRUE,
              error |-> [kind |-> "unsupported", adapter |-> config.type],
              attempts |-> <<>>]
        ELSE IF ~connectOk
        THEN [manager |-> pointed, threw |-> TRUE,
              error |-> [kind |-> "connect", adapter |-> config.type],
              attempts |-> <<ConnectAttempt(config.type, FALSE)>>]
        ELSE [manager |->
                [clients |-> MapSet(m.clients,
                                    [id |-> config.id, via |-> config.type,
                                     conn |-> m.opened + 1]),
                 defaultClientId |-> pointed.defaultClientId,
                 opened |-> m.opened + 1],
              threw |-> FALSE, error |-> NoError,
              attempts |-> <<ConnectAttempt(config.type, TRUE)>>]

\* MCPClientManager.registerClient; connectOk is whether the adapter's
\* createXxxMCPClient resolved
registerClient(m, config, connectOk) ==
    IF config.type \notin TransportTypes
    THEN [manager |-> m, threw |-> TRUE,
          error |-> [kind |-> "unsupported", adapter |-> config.type],
          attempts |-> <<>>]
    ELSE IF ~connectOk
    THEN [manager |-> m, threw |-> TRUE,
          error |-> [kind |-> "connect", adapter |-> config.type],
          attempts |-> <<ConnectAttempt(config.type, FALSE)>>]
    ELSE [manager |->
            [clients |-> MapSet(m.clients,
                                [id |-> config.id, via |-> config.type,
                                 conn |-> m.opened + 1]),
             defaultClientId |->
                IF config.setAsDefault \/ m.defaultClientId = "null"
                THEN config.id ELSE m.defaultClientId,
             opened |-> m.opened + 1],
          threw |-> FALSE, error |-> NoError,
          attempts |-> <<ConnectAttempt(config.type, TRUE)>>]

\* registerMCPClient: skip a known id; HTTP with fallback retries over the
\* SSE adapter and rethrows that attempt's error
registerMCPClient(m, config, fallbackToSSE, httpOk, sseOk) ==
    IF HasClient(m, config.id)
    THEN [manager |-> m, threw |-> FALSE, error |-> NoError, attempts |-> <<>>]
    ELSE IF config.type = "http" /\ fallbackToSSE
    THEN LET first == registerClient(m, config, httpOk)
         IN  IF ~first.threw THEN first
             ELSE LET second == registerClient(m, [config EXCEPT !.type = "sse"], sseOk)
                  IN  [second EXCEPT !.attempts = first.attempts \o second.attempts]
    ELSE registerClient(m, config, IF config.type = "http" THEN httpOk ELSE sseOk)

(***************************************************************************)
(* The other methods of MCPClientManager, as functions of the manager, of  *)
(* the set of closed connections and of what client.close() does.          *)
(***************************************************************************)
\* a setDefaultClient that does not look the id up
setDefaultClientUnchecked(m, id) ==
    [manager |-> [m EXCEPT !.defaultClientId = id], threw |-> FALSE,
     error |-> NoError]

\* MCPClientManager.setDefaultClient
setDefaultClient(m, id) ==
    IF ~HasClient(m, id)
    THEN [manager |-> m, threw |-> TRUE,
          error |-> [kind |-> "notFound", adapter |-> "none"]]
    ELSE [manager |-> [m EXCEPT !.defaultClientId = id], threw |-> FALSE,
          error |-> NoError]

\* Map.delete
MapDelete(clients, id) == SelectSeq(clients, LAMBDA c : c.id # id)

\* the connections the registry holds
HeldConns(m) == {m.clients[i].conn : i \in 1..Len(m.clients)}

\* MCPClientManager.getDefaultClient: the stored connection, or none
\* (undefined)
getDefaultClient(m) ==
    IF m.defaultClientId = "null" THEN {}
    ELSE {m.clients[i].conn :
            i \in {j \in 1..Len(m.clients) : m.clients[j].id = m.defaultClientId}}

\* a removeClient that leaves the default pointer as it is
removeClientKeepingDefault(m, cl, id, closeOk) ==
    LET conns == {m.clients[i].conn : i \in {j \in 1..Len(m.clients) : m.clients[j].id = id}}
    IN  IF conns # {} /\ ~closeOk
        THEN [manager |-> m, closed |-> cl, threw |-> TRUE,
              error |-> [kind |-> "close", adapter |-> "none"]]
        ELSE [manager |-> [m EXCEPT !.clients = MapDelete(m.clients, id)],
              closed |-> cl \cup conns, threw |-> FALSE, error |-> NoError]

\* MCPClientManager.removeClient; closeOk is whether client.close() resolved.
\* A rejected close leaves the method at its await: nothing after it runs.
removeClient(m, cl, id, closeOk) ==
    LET conns == {m.clients[i].conn : i \in {j \in 1..Len(m.clients) : m.clients[j].id = id}}
    IN  IF conns # {} /\ ~closeOk
        THEN [manager |-> m, closed |-> cl, threw |-> TRUE,
              error |-> [kind |-> "close", adapter |-> "none"]]
        ELSE [manager |->
                [clients |-> MapDelete(m.clients, id),
                 defaultClientId |->
                    IF m.defaultClientId = id THEN "null" ELSE m.defaultClientId,
                 opened |-> m.opened],
              closed |-> cl \cup conns, threw |-> FALSE, error |-> NoError]

\* MCPClientManager.closeAll; failing is the set of held connections whose
\* close() rejects.  Every close() is started by the map() before
\* Promise.all is awaited; one rejection rejects the await, and the two
\* statements after it do not run.
closeAll(m, cl, failing) ==
    IF failing # {}
    THEN [manager |-> m, closed |-> cl \cup (HeldConns(m) \ failing),
          threw |-> TRUE, error |-> [kind |-> "close", adapter |-> "none"]]
    ELSE [manager |-> [clients |-> <<>>, defaultClientId |-> "null",
                       opened |-> m.opened],
          closed |-> cl \cup HeldConns(m), threw |-> FALSE, error |-> NoError]

\* an optional boolean option with its default
OptionOr(value, default) == IF value = "undefined" THEN default ELSE value = "true"

\* a loop body that rethrows unless continueOnError was given as true
registerMCPClientsIterationAborting(m, options, config, httpOk, sseOk) ==
    LET r == registerMCPClient(m, config, OptionOr(options.fallbackToSSE, TRUE),
                               httpOk, sseOk)
    IN  [manager |-> r.manager, failed |-> r.threw,
         threw |-> r.threw /\ ~OptionOr(options.continueOnError, FALSE),
         error |-> r.error, attempts |-> r.attempts]

\* one iteration of the loop of registerMCPClients: the try/catch around
\* registerMCPClient, which continues or rethrows
registerMCPClientsIteration(m, options, config, httpOk, sseOk) ==
    LET r == registerMCPClient(m, config, OptionOr(options.fallbackToSSE, TRUE),
                               httpOk, sseOk)
    IN  [manager |-> r.manager, failed |-> r.threw,
         threw |-> r.threw /\ ~OptionOr(options.continueOnError, TRUE),
         error |-> r.error, attempts |-> r.attempts]

(***************************************************************************)
(* One chat request: createChatHandler -> getAllMcpTools ->                *)
(* createMCPManager -> initializeMCPClients -> registerMCPClients, then    *)
(* the per-client tools() loop, mergeAllTools and the model invocation.    *)
(* The options of the request are immutable; a field is drawn where the    *)
(* handler first reads it.  The integration list of initializeMCPClients   *)
(* (one entry per configured tool server) is an input of the request.      *)
(***************************************************************************)
\* one entry per integration: the config its get...MCPConfig() returns, and
\* whether the environment values it requires are set (if not, it throws)
ChatConfigs == [id : SessionIds, type : TransportTypes, setAsDefault : {TRUE},
                envSet : BOOLEAN]
ConfigSeqs == UNION {[1..n -> ChatConfigs] : n \in 0..MaxConfigs}

MessageShapes == {"notArray", "empty", "nonEmpty"}
FrontendInputs ==
    {[shape |-> "undefined", names |-> {}], [shape |-> "array", names |-> {}]}
    \cup {[shape |-> "object", names |-> ns] : ns \in SUBSET ToolNames}
ForceInputs == {"undefined", "true", "false"}
SystemInputs == {"undefined", "sys"}
ProviderInputs == {"undefined", "gemini", "openai", "azure"}

NoCatalog == [s \in {} |-> {}]
NoOutcome == [kind |-> "none"]

ChatInit ==
    /\ pc = "start"
    /\ req \in {[messages |-> m] : m \in MessageShapes}
    /\ configs \in ConfigSeqs
    /\ catalog = NoCatalog
    /\ manager = NewManager
    /\ idx = 1
    /\ clientIds = <<>>
    /\ failed = {}
    /\ mcpTools = EmptyTools
    /\ allTools = EmptyTools
    /\ frontendOk = TRUE
    /\ outcome = NoOutcome

\* a handler that lets every message list through
ValidateMessagesSkipped ==
    /\ pc = "start"
    /\ pc' = "register"
    /\ UNCHANGED <<req, configs, catalog, manager, idx, clientIds, failed,
                   mcpTools, allTools, frontendOk, outcome>>
    /\ UNCHANGED <<mcpVars, mgrVars, streamVars, restVars>>

\* validateMessages, then `new MCPClientManager()` inside createMCPManager
ValidateMessages ==
    /\ pc = "start"
    /\ IF req.messages \in {"notArray", "empty"}
       THEN /\ pc' = "done"
            /\ outcome' = [kind |-> "throw",
                           error |-> "Messages must be a non-empty array of UIMessage"]
       ELSE /\ pc' = "register"
            /\ outcome' = outcome
    /\ UNCHANGED <<req, configs, catalog, manager, idx, clientIds, failed,
                   mcpTools, allTools, frontendOk>>
    /\ UNCHANGED <<mcpVars, mgrVars, streamVars, restVars>>

\* one integration of initializeMCPClients: its config is loaded and goes
\* through one iteration of the registerMCPClients loop, with the defaults
\* fallbackToSSE = true and continueOnError = true (a failure is logged
\* and the loop continues); a config whose load threw is logged and left
\* out of the list
RegisterNextClient ==
    /\ pc = "register"
    /\ idx <= Len(configs)
    /\ IF configs[idx].envSet
       THEN \E httpOk \in BOOLEAN, sseOk \in BOOLEAN :
              manager' = registerMCPClient(manager, configs[idx], TRUE,
                                           httpOk, sseOk).manager
       ELSE manager' = manager
    /\ idx' = idx + 1
    /\ UNCHANGED <<pc, req, configs, catalog, clientIds, failed, mcpTools,
                   allTools, frontendOk, outcome>>
    /\ UNCHANGED <<mcpVars, mgrVars, streamVars, restVars>>

\* createMCPManager has resolved: snapshot the ids, start the accumulator
\* with the integrated tools
ManagerReady ==
    /\ pc = "register"
    /\ idx > Len(configs)
    /\ pc' = "tools"
    /\ clientIds' = listClientIds(manager)
    /\ mcpTools' = ObjectAssign(EmptyTools, getChatbotTool)
    /\ idx' = 1
    /\ configs' = <<>>
    /\ UNCHANGED <<req, catalog, manager, failed, allTools, frontendOk, outcome>>
    /\ UNCHANGED <<mcpVars, mgrVars, streamVars, restVars>>

\* a merge in which the tools already collected win
MergeClientToolsKeepingEarlier(acc, tools) == ObjectAssign(tools, acc)

\* what the loop does with the tools one client returned
MergeClientTools(acc, tools) == ObjectAssign(acc, tools)

\* a failure that reaches the outer catch, which answers {}
AfterClientFailureAborting(acc) == EmptyTools

\* what the loop is left with when one client's tools() threw
AfterClientFailure(acc) == acc

\* one iteration of the loop over clientIds in getAllMcpTools
FetchClientTools ==
    /\ pc = "tools"
    /\ idx <= Len(clientIds)
    /\ LET id == clientIds[idx]
       IN  \/ \E names \in SUBSET ToolNames :
                /\ catalog' = [s \in (DOMAIN catalog) \cup {id} |->
                                 IF s = id THEN names ELSE catalog[s]]
                /\ mcpTools' = MergeClientTools(mcpTools, ClientTools(id, names))
                /\ failed' = failed
           \/ /\ catalog' = [s \in (DOMAIN catalog) \cup {id} |->
                                 IF s = id THEN {} ELSE catalog[s]]
              /\ mcpTools' = AfterClientFailure(mcpTools)
              /\ failed' = failed \cup {id}
    /\ idx' = idx + 1
    /\ UNCHANGED <<pc, req, configs, manager, clientIds, allTools, frontendOk, outcome>>
    /\ UNCHANGED <<mcpVars, mgrVars, streamVars, restVars>>

\* a validateForceToolUse that returns the flag as requested
validateForceToolUseAsRequested(force, tools) == (force = "true")

\* validateForceToolUse
validateForceToolUse(force, tools) ==
    LET hasTools == DOMAIN tools # {}
        shouldForceToolUse == (force = "true")
    IN  IF shouldForceToolUse /\ ~hasTools THEN FALSE ELSE shouldForceToolUse

\* buildSystemMessageWithToolInstruction: the prompt handed to streamText
buildSystemMessageWithToolInstruction(system, tools, force) ==
    IF ~force \/ DOMAIN tools = {}
    THEN [base |-> system, instructed |-> FALSE, toolNames |-> {}]
    ELSE [base |-> system, instructed |-> TRUE, toolNames |-> DOMAIN tools]

\* a getModelConfig whose default case falls back to the gemini model
getModelConfigDefaultingUnknown(provider, keySet) ==
    IF keySet THEN "ok" ELSE "API key is missing"

\* getModelConfig: "ok" or the error it throws
getModelConfig(provider, keySet) ==
    LET p == IF provider = "undefined" THEN "gemini" ELSE provider
    IN  IF p \in {"gemini", "openai"}
        THEN IF keySet THEN "ok" ELSE "API key is missing"
        ELSE "Unknown provider"

MaxToolSteps == 10

\* a createStreamTextWithModel that hands streamText whatever it was given
createStreamTextWithModelUnconverted(messagesOk, system, tools, force) ==
    [kind |-> "stream",
     system |-> buildSystemMessageWithToolInstruction(system, tools, force),
     tools |-> tools,
     forceToolUse |-> force,
     stopWhen |-> MaxToolSteps]

\* createStreamTextWithModel: the error of convertToModelMessages is logged
\* and thrown again
createStreamTextWithModel(messagesOk, system, tools, force) ==
    IF ~messagesOk
    THEN [kind |-> "throw", error |-> "convertToModelMessages failed"]
    ELSE [kind |-> "stream",
          system |-> buildSystemMessageWithToolInstruction(system, tools, force),
          tools |-> tools,
          forceToolUse |-> force,
          stopWhen |-> MaxToolSteps]

\* the rest of createChatHandler after getAllMcpTools resolved
FinishHandler ==
    /\ pc = "tools"
    /\ idx > Len(clientIds)
    /\ \E tools \in FrontendInputs, force \in ForceInputs, system \in SystemInputs,
          provider \in ProviderInputs, keySet \in BOOLEAN, convertOk \in BOOLEAN,
          messagesOk \in BOOLEAN :
         /\ tools.shape # "object" => convertOk
         /\ (provider = "azure") => keySet
         /\ getModelConfig(provider, keySet) # "ok" => messagesOk
         /\ req' = [messages |-> req.messages, tools |-> tools, forceToolUse |-> force,
                    system |-> system, modelProvider |-> provider, keySet |-> keySet,
                    messagesValid |-> messagesOk]
         /\ frontendOk' = convertOk
         /\ allTools' = mergeAllTools(tools, mcpTools, convertOk)
         /\ LET finalForceToolUse == validateForceToolUse(force, allTools')
                model == getModelConfig(provider, keySet)
            IN  outcome' =
                  IF model # "ok" THEN [kind |-> "throw", error |-> model]
                  ELSE createStreamTextWithModel(messagesOk, system, allTools',
                                                 finalForceToolUse)
    /\ pc' = "done"
    /\ UNCHANGED <<configs, catalog, manager, idx, clientIds, failed, mcpTools>>
    /\ UNCHANGED <<mcpVars, mgrVars, streamVars, restVars>>

(***************************************************************************)
(* validateForceToolUse followed by createStreamTextWithModel, for every   *)
(* force flag, system prompt and merged tool map (the empty one included). *)
(***************************************************************************)
PromptToolNames == ToolNames \cup {"fetch"}
PromptSystemInputs == SystemInputs \cup {""}

PromptInit ==
    /\ pc = "prompt"
    /\ req \in [forceToolUse : ForceInputs, system : PromptSystemInputs]
    /\ allTools \in {frontendTools(ns) : ns \in SUBSET PromptToolNames}
    /\ configs = <<>>
    /\ catalog = NoCatalog
    /\ manager = NewManager
    /\ idx = 1
    /\ clientIds = <<>>
    /\ failed = {}
    /\ mcpTools = EmptyTools
    /\ frontendOk = TRUE
    /\ outcome = NoOutcome

\* createChatHandler from validateForceToolUse on, with a model configured
ApplyForceToolUse ==
    /\ pc = "prompt"
    /\ LET finalForceToolUse == validateForceToolUse(req.forceToolUse, allTools)
       IN  outcome' = createStreamTextWithModel(TRUE, req.system, allTools,
                                                finalForceToolUse)
    /\ pc' = "done"
    /\ UNCHANGED <<req, configs, catalog, manager, idx, clientIds, failed,
                   mcpTools, allTools, frontendOk>>
    /\ UNCHANGED <<mcpVars, mgrVars, streamVars, restVars>>

ChatNext ==
    \/ ValidateMessages
    \/ RegisterNextClient
    \/ ManagerReady
    \/ FetchClientTools
    \/ FinishHandler

(***************************************************************************)
(* A manager and its owner: the owner calls the manager's methods and the  *)
(* registration helpers one after the other, each call running to its end  *)
(* before the next one starts.  The configs of a bulk registration are     *)
(* drawn where the loop reads them.                                        *)
(***************************************************************************)
MaxOps == 2
MaxBulk == 3

\* MCPClientConfig, with a transport type the manager does not know
MgrConfigs == [id : SessionIds, type : TransportTypes \cup {"ws"},
               setAsDefault : BOOLEAN]
OptionInputs == {"undefined", "true", "false"}
BulkOptions == [fallbackToSSE : OptionInputs, continueOnError : OptionInputs]

NoCall == [op |-> "none", status |-> "returned"]

chatRest == <<pc, req, configs, catalog, idx, clientIds, failed, mcpTools,
              allTools, frontendOk, outcome>>

MgrIdle ==
    /\ closed = {}
    /\ last = NoCall
    /\ ops = 0

\* the owner may start a call
MayCall == last.status # "running" /\ ops < MaxOps

StatusOf(threw) == IF threw THEN "threw" ELSE "returned"

\* the adapter calls registerMCPClient makes for this config; the outcome
\* of a call that is not made is not an input (it is fixed to TRUE)
OutcomesUsed(m, config, fallbackToSSE, httpOk, sseOk) ==
    LET new == ~HasClient(m, config.id)
        httpUsed == new /\ config.type = "http"
        sseUsed == new /\ (\/ config.type = "sse"
                          \/ (config.type = "http" /\ fallbackToSSE /\ ~httpOk))
    IN  (httpUsed \/ httpOk) /\ (sseUsed \/ sseOk)

\* await manager.registerClient(config)
MgrRegisterClient ==
    /\ MayCall
    /\ \E config \in MgrConfigs, connectOk \in BOOLEAN :
         LET r == registerClient(manager, config, connectOk)
         IN  /\ config.type \in TransportTypes \/ connectOk
             /\ manager' = r.manager
             /\ last' = [op |-> "registerClient", status |-> StatusOf(r.threw),
                         config |-> config, before |-> manager,
                         closedBefore |-> closed, error |-> r.error,
                         attempts |-> r.attempts]
    /\ ops' = ops + 1
    /\ UNCHANGED <<closed, chatRest, mcpVars, streamVars, restVars>>

\* await registerMCPClient(manager, config, fallbackToSSE)
MgrRegisterMCPClient ==
    /\ MayCall
    /\ \E config \in MgrConfigs, fallback \in OptionInputs,
          httpOk \in BOOLEAN, sseOk \in BOOLEAN :
         LET r == registerMCPClient(manager, config, OptionOr(fallback, TRUE),
                                    httpOk, sseOk)
         IN  /\ OutcomesUsed(manager, config, OptionOr(fallback, TRUE), httpOk, sseOk)
             /\ manager' = r.manager
             /\ last' = [op |-> "registerMCPClient", status |-> StatusOf(r.threw),
                         config |-> config, fallbackToSSE |-> fallback,
                         before |-> manager, closedBefore |-> closed,
                         error |-> r.error, attempts |-> r.attempts]
    /\ ops' = ops + 1
    /\ UNCHANGED <<closed, chatRest, mcpVars, streamVars, restVars>>

\* manager.setDefaultClient(id)
MgrSetDefaultClient ==
    /\ MayCall
    /\ \E id \in SessionIds :
         LET r == setDefaultClient(manager, id)
         IN  /\ manager' = r.manager
             /\ last' = [op |-> "setDefaultClient", status |-> StatusOf(r.threw),
                         id |-> id, before |-> manager, closedBefore |-> closed,
                         error |-> r.error]
    /\ ops' = ops + 1
    /\ UNCHANGED <<closed, chatRest, mcpVars, streamVars, restVars>>

\* await manager.removeClient(id)
MgrRemoveClient ==
    /\ MayCall
    /\ \E id \in SessionIds, closeOk \in BOOLEAN :
         LET r == removeClient(manager, closed, id, closeOk)
         IN  /\ manager' = r.manager
             /\ closed' = r.closed
             /\ last' = [op |-> "removeClient", status |-> StatusOf(r.threw),
                         id |-> id, before |-> manager, closedBefore |-> closed,
                         error |-> r.error]
    /\ ops' = ops + 1
    /\ UNCHANGED <<chatRest, mcpVars, streamVars, restVars>>

\* await manager.closeAll()
MgrCloseAll ==
    /\ MayCall
    /\ \E failing \in SUBSET HeldConns(manager) :
         LET r == closeAll(manager, closed, failing)
         IN  /\ manager' = r.manager
             /\ closed' = r.closed
             /\ last' = [op |-> "closeAll", status |-> StatusOf(r.threw),
                         closeFailed |-> failing, before |-> manager,
                         closedBefore |-> closed, error |-> r.error]
    /\ ops' = ops + 1
    /\ UNCHANGED <<chatRest, mcpVars, streamVars, restVars>>

\* registerMCPClients(manager, configs, options) is called with a list of
\* n configs
MgrRegisterMCPClients ==
    /\ MayCall
    /\ \E options \in BulkOptions, n \in 0..MaxBulk :
         last' = [op |-> "registerMCPClients",
                  status |-> IF n = 0 THEN "returned" ELSE "running",
                  options |-> options, n |-> n, processed |-> 0,
                  failedAt |-> {}, skippedAt |-> {}, stored |-> <<>>,
                  before |-> manager, closedBefore |-> closed,
                  stepBefore |-> manager, error |-> NoError]
    /\ ops' = ops + 1
    /\ UNCHANGED <<manager, closed, chatRest, mcpVars, streamVars, restVars>>

\* the loop of registerMCPClients handles its next config
MgrRegisterNext ==
    /\ last.op = "registerMCPClients"
    /\ last.status = "running"
    /\ \E config \in MgrConfigs, httpOk \in BOOLEAN, sseOk \in BOOLEAN :
         LET r == registerMCPClientsIteration(manager, last.options, config,
                                              httpOk, sseOk)
             k == last.processed + 1
             known == HasClient(manager, config.id)
         IN  /\ OutcomesUsed(manager, config,
                             OptionOr(last.options.fallbackToSSE, TRUE), httpOk, sseOk)
             /\ manager' = r.manager
             /\ last' = [last EXCEPT
                           !.processed = k,
                           !.stepBefore = manager,
                           !.failedAt = IF r.failed THEN @ \cup {k} ELSE @,
                           !.skippedAt = IF known THEN @ \cup {k} ELSE @,
                           !.stored = IF ~r.failed /\ ~known
                                      THEN Append(@, config.id) ELSE @,
                           !.error = IF r.threw THEN r.error ELSE @,
                           !.status = IF r.threw THEN "threw"
                                      ELSE IF k = last.n THEN "returned"
                                      ELSE "running"]
    /\ UNCHANGED <<closed, ops, chatRest, mcpVars, streamVars, restVars>>

MgrNext ==
    \/ MgrRegisterClient
    \/ MgrRegisterMCPClient
    \/ MgrSetDefaultClient
    \/ MgrRemoveClient
    \/ MgrCloseAll
    \/ MgrRegisterMCPClients
    \/ MgrRegisterNext

(***************************************************************************)
(* createStreamingResponse: the start(controller) callback of the          *)
(* ReadableStream enqueues one chunk per frame and then closes.            *)
(***************************************************************************)
MaxTextLen == 2
TextTokens == {"Hello", "\n", "\""}
StreamTexts == UNION {[1..n -> TextTokens] : n \in 0..MaxTextLen}
\* options.messageId: absent, or a string (possibly the empty one)
MessageIds == {"undefined", "", "0", "42"}

\* a string option as text tokens
StringTokens(str) == IF str = "" THEN <<>> ELSE <<str>>

\* const { text, messageId = "0" } = options
messageIdOf(options) ==
    IF options.messageId = "undefined" THEN "0" ELSE options.messageId

\* { type }, { type, id }, { type, id, delta }, { type, finishReason }
TypeFrame(type) == JObj(<< <<"type", JStr(<<type>>)>> >>)
TextFrame(type, id) ==
    JObj(<< <<"type", JStr(<<type>>)>>, <<"id", JStr(StringTokens(id))>> >>)
DeltaFrame(id, delta) ==
    JObj(<< <<"type", JStr(<<"text-delta">>)>>, <<"id", JStr(StringTokens(id))>>,
            <<"delta", JStr(delta)>> >>)
FinishFrame(reason) ==
    JObj(<< <<"type", JStr(<<"finish">>)>>, <<"finishReason", JStr(<<reason>>)>> >>)

\* `data: ${JSON.stringify(doc)}\n\n`
StreamChunk(doc) == <<"data: ">> \o Stringify(doc) \o <<"\n", "\n">>
\* "data: [DONE]\n\n"
DoneChunk == <<"data: ", "[DONE]", "\n", "\n">>

\* an encoder that sends the text as one delta per piece of text
streamChunksDeltaPerPiece(options) ==
    LET id == messageIdOf(options)
    IN  << StreamChunk(TypeFrame("start")),
           StreamChunk(TypeFrame("start-step")),
           StreamChunk(TextFrame("text-start", id)) >>
        \o [i \in 1..Len(options.text) |->
              StreamChunk(DeltaFrame(id, <<options.text[i]>>))]
        \o << StreamChunk(TextFrame("text-end", id)),
              StreamChunk(TypeFrame("finish-step")),
              StreamChunk(FinishFrame("stop")),
              DoneChunk >>

\* the chunks start(controller) enqueues, in order
streamChunks(options) ==
    LET id == messageIdOf(options)
    IN  << StreamChunk(TypeFrame("start")),
           StreamChunk(TypeFrame("start-step")),
           StreamChunk(TextFrame("text-start", id)),
           StreamChunk(DeltaFrame(id, options.text)),
           StreamChunk(TextFrame("text-end", id)),
           StreamChunk(TypeFrame("finish-step")),
           StreamChunk(FinishFrame("stop")),
           DoneChunk >>

NoStream == [text |-> <<>>, messageId |-> "undefined"]

StreamIdle ==
    /\ stIn = NoStream
    /\ stOut = <<>>
    /\ stClosed = FALSE

StreamInit ==
    /\ stIn \in [text : StreamTexts, messageId : MessageIds]
    /\ stOut = <<>>
    /\ stClosed = FALSE

\* controller.enqueue(encoder.encode(chunk)), for the next chunk
StreamEnqueue ==
    /\ ~stClosed
    /\ Len(stOut) < Len(streamChunks(stIn))
    /\ stOut' = Append(stOut, streamChunks(stIn)[Len(stOut) + 1])
    /\ UNCHANGED <<stIn, stClosed>>
    /\ UNCHANGED <<mcpVars, chatVars, mgrVars, restVars>>

\* controller.close()
StreamClose ==
    /\ ~stClosed
    /\ Len(stOut) = Len(streamChunks(stIn))
    /\ stClosed' = TRUE
    /\ UNCHANGED <<stIn, stOut>>
    /\ UNCHANGED <<mcpVars, chatVars, mgrVars, restVars>>

StreamNext == StreamEnqueue \/ StreamClose

(***************************************************************************)
(* The chat endpoints: POST of app/api/chat/route.ts, which reads the body *)
(* field by field and answers every failure itself, and the POST that      *)
(* goes through parseChatRequest and toErrorResponse.  Both hand the       *)
(* options to createChatHandler, whose run is summarised by its result.    *)
(***************************************************************************)
HTTP_STATUS_OK == 200
HTTP_STATUS_BAD_REQUEST == 400
HTTP_STATUS_INTERNAL_SERVER_ERROR == 500

\* body.forceToolUse as JSON can carry it (undefined: the key is absent)
BodyForceInputs == ForceInputs \cup {"null"}
BodyMessages == MessageShapes \cup {"undefined"}
BodyProviders == {"undefined", "openai", "azure"}
MetadataProviders == {"undefined", "gemini"}

\* body.metadata: absent, or an object whose keys may be absent
NoMetadata == [present |-> FALSE, forceToolUse |-> "undefined",
               modelProvider |-> "undefined"]
MetadataInputs ==
    {NoMetadata} \cup [present : {TRUE}, forceToolUse : ForceInputs,
                       modelProvider : MetadataProviders]

\* a request whose body is not JSON, and the bodies that are
UnparsableBody == [json |-> FALSE]
RouteBodies ==
    {UnparsableBody}
    \cup [json : {TRUE}, messages : BodyMessages, forceToolUse : BodyForceInputs,
          modelProvider : BodyProviders, metadata : MetadataInputs]

NoOptions == [called |-> FALSE]
NoResponse == [kind |-> "none"]

\* an extractForceToolUse that reads the metadata before the body
extractForceToolUseMetadataFirst(b) ==
    IF b.metadata.present /\ b.metadata.forceToolUse # "undefined"
    THEN b.metadata.forceToolUse
    ELSE IF b.forceToolUse # "undefined" THEN b.forceToolUse
    ELSE "true"

\* extractForceToolUse, and the same conditional in route.ts
extractForceToolUse(b) ==
    IF b.forceToolUse # "undefined" THEN b.forceToolUse
    ELSE IF b.metadata.present /\ b.metadata.forceToolUse # "undefined"
    THEN b.metadata.forceToolUse
    ELSE "true"

\* extractModelProvider: body.modelProvider || body.metadata?.modelProvider
\* || "gemini"
extractModelProvider(b) ==
    IF b.modelProvider # "undefined" THEN b.modelProvider
    ELSE IF b.metadata.present /\ b.metadata.modelProvider # "undefined"
    THEN b.metadata.modelProvider
    ELSE "gemini"

\* parseMessages: anything that is not an array becomes []
parseMessages(b) ==
    IF b.messages \in {"undefined", "notArray"} THEN "empty" ELSE b.messages

\* body.messages || [] in route.ts: only a missing (falsy) value becomes []
MessagesOrEmpty(b) ==
    IF b.messages = "undefined" THEN "empty" ELSE b.messages

\* createChatHandler run to its end: mcpTools is what getAllMcpTools
\* resolved with
createChatHandler(options, tools, keySet, messagesOk) ==
    IF options.messages \in {"notArray", "empty"}
    THEN [kind |-> "throw",
          error |-> "Messages must be a non-empty array of UIMessage"]
    ELSE LET merged == mergeAllTools(options.tools, tools, TRUE)
             finalForceToolUse == validateForceToolUse(options.forceToolUse, merged)
             model == getModelConfig(options.modelProvider, keySet)
         IN  IF model # "ok" THEN [kind |-> "throw", error |-> model]
             ELSE createStreamTextWithModel(messagesOk, options.system, merged,
                                            finalForceToolUse)

\* the title toErrorResponse derives from the status
ErrorTitle(status) ==
    IF status >= HTTP_STATUS_INTERNAL_SERVER_ERROR THEN "Internal server error"
    ELSE IF status >= HTTP_STATUS_BAD_REQUEST THEN "Bad request"
    ELSE "Error"

\* toErrorResponse: every error thrown here is an Error, whose message is
\* passed on
toErrorResponse(message, status) ==
    [kind |-> "error", status |-> status, error |-> ErrorTitle(status),
     message |-> message]

\* result.toUIMessageStreamResponse()
StreamResponse(result) ==
    [kind |-> "stream", status |-> HTTP_STATUS_OK, stream |-> result]

\* what getAllMcpTools can resolve with: the integrated tool, alone or with
\* the tools of a session
RouteMcpTools ==
    {ObjectAssign(EmptyTools, getChatbotTool),
     ObjectAssign(ObjectAssign(EmptyTools, getChatbotTool),
                  ClientTools("A", {"search"}))}

RouteIdle ==
    /\ body = UnparsableBody
    /\ chatOptions = NoOptions
    /\ response = NoResponse

RouteInit ==
    /\ body \in RouteBodies
    /\ chatOptions = NoOptions
    /\ response = NoResponse

\* the options both endpoints build from a parsed body (system and the
\* frontend tools are not given)
OptionsOf(messages) ==
    [called |-> TRUE, messages |-> messages, system |-> "undefined",
     modelProvider |-> extractModelProvider(body),
     tools |-> [shape |-> "undefined", names |-> {}],
     forceToolUse |-> extractForceToolUse(body)]

\* POST of app/api/chat/route.ts: one catch, which always answers 500
POST ==
    /\ response = NoResponse
    /\ IF ~body.json
       THEN /\ chatOptions' = NoOptions
            /\ response' = [kind |-> "error", status |-> 500,
                            error |-> "Internal server error",
                            message |-> "Unexpected token"]
       ELSE \E tools \in RouteMcpTools, keySet \in BOOLEAN, messagesOk \in BOOLEAN :
              LET options == OptionsOf(MessagesOrEmpty(body))
                  result == createChatHandler(options, tools, keySet, messagesOk)
              IN  /\ chatOptions' = options
                  /\ response' =
                       IF result.kind = "throw"
                       THEN [kind |-> "error", status |-> 500,
                             error |-> "Internal server error",
                             message |-> result.error]
                       ELSE StreamResponse(result)
    /\ UNCHANGED body
    /\ UNCHANGED <<mcpVars, chatVars, mgrVars, streamVars, raceVars>>

\* POST built on parseChatRequest: one catch, which always passes
\* HTTP_STATUS.BAD_REQUEST to toErrorResponse
POSTParsed ==
    /\ response = NoResponse
    /\ IF ~body.json
       THEN /\ chatOptions' = NoOptions
            /\ response' = toErrorResponse("Invalid request body: JSON parsing failed",
                                           HTTP_STATUS_BAD_REQUEST)
       ELSE \E tools \in RouteMcpTools, keySet \in BOOLEAN, messagesOk \in BOOLEAN :
              LET options == OptionsOf(parseMessages(body))
                  result == createChatHandler(options, tools, keySet, messagesOk)
              IN  /\ chatOptions' = options
                  /\ response' =
                       IF result.kind = "throw"
                       THEN toErrorResponse(result.error, HTTP_STATUS_BAD_REQUEST)
                       ELSE StreamResponse(result)
    /\ UNCHANGED body
    /\ UNCHANGED <<mcpVars, chatVars, mgrVars, streamVars, raceVars>>

RouteNext == POST \/ POSTParsed

(***************************************************************************)
(* Calls on one manager made by tasks that do not wait for each other.     *)
(* JavaScript runs a call without interruption up to its next await, so a  *)
(* call is split at its awaits: registerMCPClient at the await of the      *)
(* adapter inside registerClient, removeClient at `await client.close()`,  *)
(* closeAll at `await Promise.all(...)`.  Every close() resolves here.     *)
(***************************************************************************)
MaxTasks == 2

TaskIds == 1..MaxTasks

\* the calls a task can make
TaskCalls ==
    [op : {"registerMCPClient", "registerClient", "removeClient"}, id : SessionIds]
    \cup {[op |-> "closeAll", id |-> "all"]}

\* the manager the tasks share: new, or holding session A
RaceManagers ==
    {NewManager,
     [clients |-> <<[id |-> "A", via |-> "sse", conn |-> 1]>>,
      defaultClientId |-> "A", opened |-> 1]}

\* the config a registering task passes
RaceConfig(id) == [id |-> id, type |-> "sse", setAsDefault |-> FALSE]

RaceIdle == tasks = <<>>

RaceInit ==
    /\ manager \in RaceManagers
    /\ tasks \in [TaskIds -> {[op |-> c.op, id |-> c.id, pc |-> "start",
                               conns |-> {}] : c \in TaskCalls}]

\* the task moves on
Goto(t, where, conns) ==
    tasks' = [tasks EXCEPT ![t] = [@ EXCEPT !.pc = where, !.conns = conns]]

\* registerMCPClient up to the await inside registerClient: the
\* already-exists check
RaceCheckExists(t) ==
    /\ tasks[t].op = "registerMCPClient"
    /\ tasks[t].pc = "start"
    /\ IF HasClient(manager, tasks[t].id)
       THEN Goto(t, "done", {})
       ELSE Goto(t, "connecting", {})
    /\ UNCHANGED <<manager, closed>>
    /\ UNCHANGED <<last, ops, chatRest, mcpVars, streamVars, routeVars>>

\* registerClient called directly, up to the await of the adapter: there
\* is no check
RaceRegisterStart(t) ==
    /\ tasks[t].op = "registerClient"
    /\ tasks[t].pc = "start"
    /\ Goto(t, "connecting", {})
    /\ UNCHANGED <<manager, closed>>
    /\ UNCHANGED <<last, ops, chatRest, mcpVars, streamVars, routeVars>>

\* the adapter settles and registerClient runs to its end
RaceConnected(t) ==
    /\ tasks[t].pc = "connecting"
    /\ \E connectOk \in BOOLEAN :
         LET r == registerClient(manager, RaceConfig(tasks[t].id), connectOk)
         IN  /\ manager' = r.manager
             /\ Goto(t, "done", IF r.threw THEN {} ELSE {manager.opened + 1})
    /\ UNCHANGED closed
    /\ UNCHANGED <<last, ops, chatRest, mcpVars, streamVars, routeVars>>

\* removeClient up to `await client.close()`; without a client it runs to
\* its end at once
RaceRemoveStart(t) ==
    /\ tasks[t].op = "removeClient"
    /\ tasks[t].pc = "start"
    /\ LET id == tasks[t].id
           conns == {manager.clients[i].conn :
                       i \in {j \in 1..Len(manager.clients) : manager.clients[j].id = id}}
       IN  IF conns # {}
           THEN /\ Goto(t, "closing", conns)
                /\ UNCHANGED manager
           ELSE /\ Goto(t, "done", {})
                /\ manager' = removeClient(manager, closed, id, TRUE).manager
    /\ UNCHANGED closed
    /\ UNCHANGED <<last, ops, chatRest, mcpVars, streamVars, routeVars>>

\* close() has resolved: the pointer is reset and whatever is stored under
\* the id now is deleted
RaceRemoveFinish(t) ==
    /\ tasks[t].op = "removeClient"
    /\ tasks[t].pc = "closing"
    /\ closed' = closed \cup tasks[t].conns
    /\ manager' = [manager EXCEPT
                     !.clients = MapDelete(manager.clients, tasks[t].id),
                     !.defaultClientId =
                        IF @ = tasks[t].id THEN "null" ELSE @]
    /\ Goto(t, "done", tasks[t].conns)
    /\ UNCHANGED <<last, ops, chatRest, mcpVars, streamVars, routeVars>>

\* closeAll up to `await Promise.all(...)`: close() is called on every
\* client stored now
RaceCloseAllStart(t) ==
    /\ tasks[t].op = "closeAll"
    /\ tasks[t].pc = "start"
    /\ Goto(t, "closing", HeldConns(manager))
    /\ UNCHANGED <<manager, closed>>
    /\ UNCHANGED <<last, ops, chatRest, mcpVars, streamVars, routeVars>>

\* the closes have resolved: the registry as it is now is cleared
RaceCloseAllFinish(t) ==
    /\ tasks[t].op = "closeAll"
    /\ tasks[t].pc = "closing"
    /\ closed' = closed \cup tasks[t].conns
    /\ manager' = [manager EXCEPT !.clients = <<>>, !.defaultClientId = "null"]
    /\ Goto(t, "done", tasks[t].conns)
    /\ UNCHANGED <<last, ops, chatRest, mcpVars, streamVars, routeVars>>

RaceNext ==
    \/ \E t \in TaskIds : RaceCheckExists(t)
    \/ \E t \in TaskIds : RaceRegisterStart(t)
    \/ \E t \in TaskIds : RaceConnected(t)
    \/ \E t \in TaskIds : RaceRemoveStart(t)
    \/ \E t \in TaskIds : RaceRemoveFinish(t)
    \/ \E t \in TaskIds : RaceCloseAllStart(t)
    \/ \E t \in TaskIds : RaceCloseAllFinish(t)

RestIdle == RouteIdle /\ RaceIdle

McpIdle ==
    /\ mcpOp = "done"
    /\ mcpUrlSet = TRUE
    /\ mcpSent = [framing |-> "malformed", doc |-> JNull, body |-> <<>>]
    /\ mcpResp = RejectedResponse
    /\ mcpOut = Return(JNull)

\* no chat request is being served
ChatRestIdle ==
    /\ pc = "idle"
    /\ req = [messages |-> "empty"]
    /\ configs = <<>>
    /\ catalog = NoCatalog
    /\ idx = 1
    /\ clientIds = <<>>
    /\ failed = {}
    /\ mcpTools = EmptyTools
    /\ allTools = EmptyTools
    /\ frontendOk = TRUE
    /\ outcome = NoOutcome

\* no chat request is being served, and the manager is new
ChatIdle == ChatRestIdle /\ manager = NewManager

Init == /\ ChatInit
        /\ McpIdle
        /\ MgrIdle
        /\ StreamIdle
        /\ RestIdle

Next == ChatNext

Spec == Init /\ [][Next]_vars

InitMcp == /\ McpInit
           /\ ChatInit
           /\ req = [messages |-> "empty"]
           /\ configs = <<>>
           /\ MgrIdle
           /\ StreamIdle
           /\ RestIdle

SpecMcp == InitMcp /\ [][McpNext]_vars

InitManager == /\ ChatIdle
               /\ McpIdle
               /\ MgrIdle
               /\ StreamIdle
               /\ RestIdle

SpecManager == InitManager /\ [][MgrNext]_vars

InitPrompt == /\ PromptInit
              /\ McpIdle
              /\ MgrIdle
              /\ StreamIdle
              /\ RestIdle

SpecPrompt == InitPrompt /\ [][ApplyForceToolUse]_vars

InitStream == /\ ChatIdle
              /\ McpIdle
              /\ MgrIdle
              /\ StreamInit
              /\ RestIdle

SpecStream == InitStream /\ [][StreamNext]_vars

InitRoute == /\ ChatIdle
             /\ McpIdle
             /\ MgrIdle
             /\ StreamIdle
             /\ RaceIdle
             /\ RouteInit

SpecRoute == InitRoute /\ [][RouteNext]_vars

InitRace == /\ ChatRestIdle
            /\ McpIdle
            /\ MgrIdle
            /\ StreamIdle
            /\ RouteIdle
            /\ RaceInit

SpecRace == InitRace /\ [][RaceNext]_vars

(***************************************************************************)
(* Properties of mcpClient, checked under SpecMcp.                         *)
(***************************************************************************)
\* the call got a response from the transport
Answered == mcpOp # "none" /\ mcpUrlSet /\ ~mcpResp.rejected

\* the call got a success response with a readable, non-blank body
BodyRead ==
    /\ Answered
    /\ ResponseOk(mcpResp)
    /\ mcpResp.readable
    /\ ~IsBlank(mcpResp.text)

\* the text is the JSON text of some document
ValidJson(text) == \E d \in Docs : Stringify(d) = text

\* the lines of the body that start with "data: "
DataLines(text) ==
    LET lines == SplitLines(text)
    IN  {i \in 1..Len(lines) : lines[i] # <<>> /\ Head(lines[i]) = "data: "}

\* the body cannot be decoded: invalid JSON, or recognised as SSE and
\* without a "data: " line or with a first such line that is not valid JSON
Undecodable(r) ==
    IF LooksLikeSSE(r.contentType, r.text)
    THEN \/ DataLines(r.text) = {}
         \/ LET lines == SplitLines(r.text)
                first == CHOOSE i \in DataLines(r.text) :
                            \A j \in DataLines(r.text) : i <= j
            IN  ~ValidJson(Tail(lines[first]))
    ELSE ~ValidJson(r.text)

\* the body was decoded to a JSON-RPC envelope (an object)
EnvelopeDecoded ==
    /\ BodyRead
    /\ ~Undecodable(mcpResp)
    /\ DecodeBody(mcpResp.contentType, mcpResp.text).doc.jt = "obj"

TheEnvelope == DecodeBody(mcpResp.contentType, mcpResp.text).doc

\* the envelope carries no (truthy) error member
SuccessfulEnvelope ==
    /\ EnvelopeDecoded
    /\ ~(Has(TheEnvelope, "error") /\ Truthy(Get(TheEnvelope, "error")))

\* C4 (as stated): listTools never throws, in every state and for every
\* transport outcome, and a non-success status gives the empty sequence.
C4_ListToolsNeverThrows ==
    mcpOp = "listTools" =>
        /\ mcpOut.kind = "return"
        /\ (~mcpResp.rejected /\ ~ResponseOk(mcpResp)) => mcpOut.value = <<>>

\* C4 (amended): with MCP_SERVER_URL set listTools never throws, whatever
\* the transport does, and a non-success status gives the empty sequence;
\* with MCP_SERVER_URL unset it throws before any request is made.
C4_ListToolsNeverThrowsWhenConfigured ==
    mcpOp = "listTools" =>
        IF mcpUrlSet
        THEN /\ mcpOut.kind = "return"
             /\ (mcpResp.rejected \/ ~ResponseOk(mcpResp)) => mcpOut.value = <<>>
        ELSE mcpOut.kind = "throw"

C4_Witness ==
    /\ mcpOp = "listTools"
    /\ mcpUrlSet
    /\ ~mcpResp.rejected
    /\ mcpResp.status = 500
    /\ mcpResp.text # <<>>
    /\ mcpOut = Return(<<>>)

\* C5: callTool throws whenever the transport answers with a non-success
\* status, and the message of the error contains the status code.
C5_CallToolThrowsOnStatus ==
    (mcpOp = "callTool" /\ Answered /\ ~ResponseOk(mcpResp)) =>
        /\ mcpOut.kind = "throw"
        /\ Includes(mcpOut.msg, ToString(mcpResp.status))

C5_Witness ==
    /\ mcpOp = "callTool"
    /\ Answered
    /\ mcpResp.status = 500
    /\ mcpOut.kind = "throw"
    /\ mcpOut.msg[2] = "500"

\* the tokens of `part` occur in `msg` as one contiguous run
Embeds(msg, part) ==
    \E k \in 0..(Len(msg) - Len(part)) :
        \A i \in 1..Len(part) : msg[k + i] = part[i]

\* C6 (as stated): when the envelope carries an error with a code and a
\* message, listTools returns the empty catalog and callTool throws an
\* error embedding that very code and message.
C6_ErrorEmbedsOwnCodeAndMessage ==
    (/\ EnvelopeDecoded
     /\ Has(TheEnvelope, "error")
     /\ Get(TheEnvelope, "error").jt = "obj"
     /\ Has(Get(TheEnvelope, "error"), "code")
     /\ Has(Get(TheEnvelope, "error"), "message")) =>
        LET error == Get(TheEnvelope, "error")
        IN  /\ mcpOp = "listTools" => mcpOut = Return(<<>>)
            /\ mcpOp = "callTool" =>
                 /\ mcpOut.kind = "throw"
                 /\ Includes(mcpOut.msg, ToString(Get(error, "code").num))
                 /\ Embeds(mcpOut.msg, Get(error, "message").str)

\* C6 (amended): when the envelope carries a truthy error, listTools
\* returns the empty catalog and callTool throws "MCP tool call error
\* (<code>): <message>", where <code> is error.code unless that is missing
\* or 0 (then -32000) and <message> is error.message unless that is
\* missing or empty (then "Unknown error").
C6_ErrorAbsorbedOrRaised ==
    (/\ EnvelopeDecoded
     /\ Has(TheEnvelope, "error")
     /\ Truthy(Get(TheEnvelope, "error"))) =>
        LET error == Get(TheEnvelope, "error")
            code == IF Has(error, "code") /\ Get(error, "code").num # 0
                    THEN Get(error, "code").num ELSE -32000
            message == IF Has(error, "message") /\ Get(error, "message").str # <<>>
                       THEN Get(error, "message").str ELSE <<"Unknown error">>
        IN  /\ mcpOp = "listTools" => mcpOut = Return(<<>>)
            /\ mcpOp = "callTool" =>
                 mcpOut = Throw(<<"MCP tool call error (", ToString(code), "): ">>
                                \o message)

C6_Witness ==
    /\ mcpOp = "callTool"
    /\ EnvelopeDecoded
    /\ Has(TheEnvelope, "error")
    /\ Get(TheEnvelope, "error") =
         JObj(<< <<"code", JNum(-32601)>>, <<"message", JStr(<<"not found">>)>> >>)
    /\ mcpOut = Throw(<<"MCP tool call error (", "-32601", "): ", "not found">>)

\* the outcome of the performed call had the body been `text` instead
OutcomeWithBody(text) ==
    IF mcpOp = "listTools"
    THEN listTools(mcpUrlSet, [mcpResp EXCEPT !.text = text])
    ELSE callTool(mcpUrlSet, [mcpResp EXCEPT !.text = text])

\* C7: whatever framing (raw JSON or SSE) carries a payload, listTools and
\* callTool give the result they give for the same payload in the other
\* framings.  The claim covers every content-type header; it is stated
\* here for the headers that do not announce text/event-stream, where the
\* routing of the body depends on the payload's text alone.
C7_FramingsDecodeAlike ==
    (/\ mcpOp # "none"
     /\ mcpSent.framing \in Framings
     /\ ~mcpResp.rejected
     /\ mcpResp.contentType # "text/event-stream") =>
        \A f \in Framings :
            OutcomeWithBody(Frame(mcpSent.doc, f)) = mcpOut

C9_CallToolUnwrapsOneLevel ==
    (mcpOp = "callTool" /\ SuccessfulEnvelope) =>
        IF Has(TheEnvelope, "result")
        THEN LET result == Get(TheEnvelope, "result")
             IN  IF result.jt = "obj" /\ Has(result, "result")
                 THEN mcpOut = Return(Get(result, "result"))
                 ELSE mcpOut = Return(result)
        ELSE mcpOut = Return(JNull)

C9_Witness ==
    /\ mcpOp = "callTool"
    /\ SuccessfulEnvelope
    /\ Has(TheEnvelope, "result")
    /\ Get(TheEnvelope, "result") =
         JObj(<< <<"result", JObj(<< <<"result", JStr(<<"ok">>)>> >>)>> >>)
    /\ mcpOut = Return(JObj(<< <<"result", JStr(<<"ok">>)>> >>))

\* C10: on a successful envelope listTools returns the definitions when
\* `result` is an array or an object whose `tools` is an array, and the
\* empty catalog for every other shape of `result`, a missing one included.
C10_ListToolsResultShapes ==
    (mcpOp = "listTools" /\ SuccessfulEnvelope) =>
        IF ~Has(TheEnvelope, "result") THEN mcpOut = Return(<<>>)
        ELSE LET result == Get(TheEnvelope, "result")
             IN  CASE result.jt = "arr" -> mcpOut = Return(result.arr)
                   [] result.jt = "obj" /\ Has(result, "tools")
                        /\ Get(result, "tools").jt = "arr" ->
                           mcpOut = Return(Get(result, "tools").arr)
                   [] OTHER -> mcpOut = Return(<<>>)

C10_Witness ==
    /\ mcpOp = "listTools"
    /\ SuccessfulEnvelope
    /\ Has(TheEnvelope, "result")
    /\ Get(TheEnvelope, "result") = JObj(<< <<"tools", JArr(<<ToolSearch>>)>> >>)
    /\ mcpOut = Return(<<ToolSearch>>)

(***************************************************************************)
(* Properties of the tool merge, checked under Spec.                       *)
(***************************************************************************)
\* the request got past validation and the handler ran to its end
FinishRan == pc = "done" /\ "tools" \in DOMAIN req

\* the loop of getAllMcpTools is running or has run
InToolLoop == pc = "tools" \/ FinishRan

\* the sessions the loop has asked so far, by position in clientIds
AskedPositions == 1..(idx - 1)

\* the frontend tools that mergeFrontendTools applied
AppliedFrontendNames ==
    IF req.tools.shape = "object" /\ frontendOk THEN req.tools.names ELSE {}

\* C1: mergeAllTools starts from the empty map, applies the frontend tools
\* and then mcpTools: every name of mcpTools maps to the mcpTools value
\* (also when a frontend tool has that name), every other applied frontend
\* name maps to the frontend tool, and there is no other name.
C1_McpToolsWinCollisions ==
    FinishRan =>
        /\ DOMAIN allTools = AppliedFrontendNames \cup DOMAIN mcpTools
        /\ \A n \in DOMAIN mcpTools : allTools[n] = mcpTools[n]
        /\ \A n \in AppliedFrontendNames \ DOMAIN mcpTools :
              allTools[n] = Tool("frontend")

C1_Witness ==
    /\ FinishRan
    /\ frontendOk
    /\ req.tools.shape = "object"
    /\ "search" \in req.tools.names
    /\ "search" \in DOMAIN mcpTools
    /\ mcpTools["search"] = Tool("B")
    /\ allTools["search"] = Tool("B")

\* C2: the sessions are listed in registration order, and a tool name that
\* several asked sessions expose maps to the tool of the one registered
\* last; a session's tool overrides the integrated askChatbot; a name no
\* asked session exposes is present only if it is the integrated tool.
C2_LaterSessionWins ==
    InToolLoop =>
        /\ clientIds = listClientIds(manager)
        /\ \A i, j \in 1..Len(manager.clients) :
              i < j => manager.clients[i].conn < manager.clients[j].conn
        /\ \A n \in ToolNames :
              LET providers == {i \in AskedPositions : n \in catalog[clientIds[i]]}
              IN  IF providers # {}
                  THEN /\ n \in DOMAIN mcpTools
                       /\ mcpTools[n] =
                            Tool(clientIds[CHOOSE i \in providers :
                                              \A j \in providers : j <= i])
                  ELSE /\ n \in DOMAIN mcpTools <=> n = "askChatbot"
                       /\ n = "askChatbot" => mcpTools[n] = Tool("integrated")

C2_Witness ==
    /\ FinishRan
    /\ clientIds = <<"A", "B">>
    /\ "search" \in catalog["A"]
    /\ "search" \in catalog["B"]
    /\ "askChatbot" \in catalog["A"]
    /\ mcpTools["search"] = Tool("B")
    /\ mcpTools["askChatbot"] = Tool("A")

\* C3: a session whose tools() throws does not stop the loop: every listed
\* session is asked, the tools of every session that answered and the
\* integrated tool are in the result, and the only errors createChatHandler
\* throws are those of validateMessages, getModelConfig and streamText.
C3_SessionFailuresIsolated ==
    /\ InToolLoop =>
         /\ DOMAIN catalog = {clientIds[i] : i \in AskedPositions}
         /\ failed \subseteq DOMAIN catalog
         /\ \A s \in (DOMAIN catalog) \ failed :
               \A n \in catalog[s] : n \in DOMAIN mcpTools
         /\ "askChatbot" \in DOMAIN mcpTools
    /\ FinishRan => DOMAIN catalog = {clientIds[i] : i \in 1..Len(clientIds)}
    /\ outcome.kind = "throw" =>
         outcome.error \in {"Messages must be a non-empty array of UIMessage",
                            "API key is missing", "Unknown provider",
                            "convertToModelMessages failed"}

C3_Witness ==
    /\ FinishRan
    /\ clientIds = <<"A", "B">>
    /\ failed = {"A"}
    /\ catalog["B"] = {"search"}
    /\ mcpTools["search"] = Tool("B")
    /\ mcpTools["askChatbot"] = Tool("integrated")
    /\ outcome.kind = "stream"

(***************************************************************************)
(* Properties of createStreamingResponse, checked under SpecStream.        *)
(***************************************************************************)
\* what the reader of the stream receives: the chunks one after the other
RECURSIVE Concat(_)
Concat(chunks) ==
    IF chunks = <<>> THEN <<>> ELSE Head(chunks) \o Concat(Tail(chunks))

\* the documents a frame of the stream may spell out
StreamDocs ==
    LET ids == {messageIdOf([text |-> <<>>, messageId |-> i]) : i \in MessageIds}
        types == {"start", "start-step", "text-start", "text-delta", "text-end",
                  "finish-step", "finish"}
    IN  {TypeFrame(t) : t \in types}
        \cup {TextFrame(t, i) : t \in types, i \in ids}
        \cup {DeltaFrame(i, d) : i \in ids, d \in StreamTexts}
        \cup {FinishFrame(r) : r \in {"stop", "error", "length"}}

\* the reader's JSON.parse of a frame's payload (JNull when it is no JSON)
ParseStreamDoc(text) ==
    LET m == {d \in StreamDocs : Stringify(d) = text}
    IN  IF m = {} THEN JNull ELSE CHOOSE d \in m : TRUE

WireLines == SplitLines(Concat(stOut))

\* the frames of the stream: the lines between the blank lines
WireFrames == SelectSeq(WireLines, LAMBDA l : l # <<>>)

\* every frame is one line and is closed by one blank line
WellFramed ==
    /\ Len(WireLines) = 2 * Len(WireFrames) + 1
    /\ \A k \in 1..Len(WireFrames) :
         /\ WireLines[2 * k - 1] = WireFrames[k]
         /\ WireLines[2 * k] = <<>>

Keys(doc) == [i \in 1..Len(doc.obj) |-> doc.obj[i][1]]

\* frame is "data: " followed by the JSON text of an object with exactly
\* these members (all strings)
CarriesObject(frame, keys, values) ==
    /\ frame # <<>>
    /\ Head(frame) = "data: "
    /\ LET doc == ParseStreamDoc(Tail(frame))
       IN  /\ doc.jt = "obj"
           /\ Keys(doc) = keys
           /\ \A i \in 1..Len(keys) :
                /\ Get(doc, keys[i]).jt = "str"
                /\ Get(doc, keys[i]).str = values[i]

\* the k-th frame of the fixed order, for message id `id` and text `text`
IsFrame(k, frame, id, text) ==
    CASE k = 1 -> CarriesObject(frame, <<"type">>, << <<"start">> >>)
      [] k = 2 -> CarriesObject(frame, <<"type">>, << <<"start-step">> >>)
      [] k = 3 -> CarriesObject(frame, <<"type", "id">>, << <<"text-start">>, id >>)
      [] k = 4 -> CarriesObject(frame, <<"type", "id", "delta">>,
                                << <<"text-delta">>, id, text >>)
      [] k = 5 -> CarriesObject(frame, <<"type", "id">>, << <<"text-end">>, id >>)
      [] k = 6 -> CarriesObject(frame, <<"type">>, << <<"finish-step">> >>)
      [] k = 7 -> CarriesObject(frame, <<"type", "finishReason">>,
                                << <<"finish">>, <<"stop">> >>)
      [] k = 8 -> frame = <<"data: ", "[DONE]">>
      [] OTHER -> FALSE

\* C11: at every moment the frames emitted so far are the first frames of
\* start, start-step, text-start(id), text-delta(id, delta = the whole
\* text), text-end(id), finish-step, finish("stop"), [DONE], with id the
\* supplied messageId or "0" when none is supplied; once the stream is
\* closed exactly these 8 frames were emitted, [DONE] last.
C11_EightFramesThenClose ==
    LET id == IF stIn.messageId = "undefined" THEN <<"0">>
              ELSE IF stIn.messageId = "" THEN <<>> ELSE <<stIn.messageId>>
    IN  /\ WellFramed
        /\ Len(WireFrames) <= 8
        /\ \A k \in 1..Len(WireFrames) : IsFrame(k, WireFrames[k], id, stIn.text)
        /\ stClosed => Len(WireFrames) = 8

\* a two-piece text with a line break in it was encoded, without a
\* message id, and the stream is closed
C11_Witness ==
    /\ stClosed
    /\ Len(stOut) = 8
    /\ stIn.messageId = "undefined"
    /\ Len(stIn.text) = 2
    /\ stIn.text[1] = "\n"

(***************************************************************************)
(* Properties of MCPClientManager and of the registration helpers,         *)
(* checked under SpecManager.                                              *)
(***************************************************************************)
\* the last call was a registration of one config
RegisteredOne == last.op \in {"registerClient", "registerMCPClient"}

\* ... of an id the registry already held when the call started
DuplicateId == RegisteredOne /\ HasClient(last.before, last.config.id)

\* the entry the registry holds for an id
EntryOf(m, id) == m.clients[CHOOSE i \in 1..Len(m.clients) : m.clients[i].id = id]

\* C12 (as stated): a registration whose id is already registered leaves
\* the registry (entries, order, size) as it was, opens no connection and
\* stores none; inside a bulk registration the duplicate is skipped and
\* neither counts as a failure nor ends the loop.
C12_DuplicateLeavesRegistryUntouched ==
    /\ DuplicateId =>
         /\ manager.clients = last.before.clients
         /\ manager.opened = last.before.opened
         /\ \A i \in 1..Len(last.attempts) : ~last.attempts[i].ok
    /\ (/\ last.op = "registerMCPClients"
        /\ last.processed > 0
        /\ last.processed \in last.skippedAt) =>
         /\ manager = last.stepBefore
         /\ last.processed \notin last.failedAt
         /\ last.status # "threw"

\* C13: setDefaultClient(id) with an id that is not registered throws and
\* leaves the manager, its default pointer included, as it was; with a
\* registered id it returns with the pointer on id and the entries as
\* they were.
C13_SetDefaultChecksId ==
    last.op = "setDefaultClient" =>
        IF HasClient(last.before, last.id)
        THEN /\ last.status = "returned"
             /\ manager.defaultClientId = last.id
             /\ manager.clients = last.before.clients
        ELSE /\ last.status = "threw"
             /\ manager = last.before

\* setDefaultClient was refused for an unknown id while another session
\* was the default
C13_Witness ==
    /\ last.op = "setDefaultClient"
    /\ last.status = "threw"
    /\ last.before.defaultClientId # "null"
    /\ last.before.defaultClientId # last.id
    /\ manager.defaultClientId = last.before.defaultClientId

\* the entries of the registry the default pointer designates
DefaultEntries(m) ==
    {i \in 1..Len(m.clients) : m.clients[i].id = m.defaultClientId}

\* C14: the default pointer designates at most one entry, and a
\* registration that stored a session leaves the pointer on config.id when
\* config.setAsDefault is true or the pointer was null, and where it was
\* otherwise.
C14_DefaultOnFlagOrFirst ==
    /\ Cardinality(DefaultEntries(manager)) <= 1
    /\ (/\ RegisteredOne
        /\ last.status = "returned"
        /\ last.attempts # <<>>) =>
         manager.defaultClientId =
            IF last.config.setAsDefault \/ last.before.defaultClientId = "null"
            THEN last.config.id
            ELSE last.before.defaultClientId

\* a session was registered without the default flag while another
\* session was the default, and the default stayed
C14_Witness ==
    /\ RegisteredOne
    /\ last.status = "returned"
    /\ last.attempts # <<>>
    /\ ~last.config.setAsDefault
    /\ last.before.defaultClientId \notin {"null", last.config.id}
    /\ HasClient(manager, last.config.id)
    /\ manager.defaultClientId = last.before.defaultClientId

\* C15 (as stated): removeClient(id) never throws; afterwards id is not
\* registered, its connection was closed unless close() failed, the
\* default pointer is null if it pointed at id and unchanged otherwise,
\* and the other entries are as they were.
C15_RemoveIsBestEffort ==
    last.op = "removeClient" =>
        /\ last.status = "returned"
        /\ ~HasClient(manager, last.id)
        /\ manager.clients = MapDelete(last.before.clients, last.id)
        /\ manager.defaultClientId =
              IF last.before.defaultClientId = last.id THEN "null"
              ELSE last.before.defaultClientId

\* C16 (as stated): closeAll() closes every session whose close() does not
\* fail, whatever the other close() calls do, and always ends with an
\* empty registry and a null default pointer.
C16_CloseAllIsBestEffort ==
    last.op = "closeAll" =>
        /\ (HeldConns(last.before) \ last.closeFailed) \subseteq closed
        /\ manager.clients = <<>>
        /\ manager.defaultClientId = "null"

\* the fallback of registerMCPClient applies to this call
FallbackApplies ==
    /\ last.op = "registerMCPClient"
    /\ last.config.type = "http"
    /\ last.fallbackToSSE # "false"

\* C17 (as stated): registerMCPClient of an id that is not registered yet.
\* HTTP config with fallback: one attempt; if it fails exactly one more,
\* over the SSE transport; the session is registered if that one succeeds
\* and its error is the one thrown if it fails.  SSE config, or fallback
\* disabled: exactly one attempt, whose error is the one thrown.
C17_FallbackRetriesOverSse ==
    (/\ last.op = "registerMCPClient"
     /\ ~HasClient(last.before, last.config.id)
     /\ last.config.type \in {"http", "sse"}) =>
        IF FallbackApplies
        THEN /\ Len(last.attempts) \in {1, 2}
             /\ Len(last.attempts) = 1 <=> last.attempts[1].ok
             /\ Len(last.attempts) = 2 =>
                  /\ last.attempts[2].transport = "sse"
                  /\ last.attempts[2].ok =>
                       /\ last.status = "returned"
                       /\ HasClient(manager, last.config.id)
                  /\ ~last.attempts[2].ok =>
                       /\ last.status = "threw"
                       /\ last.error = [kind |-> "connect", adapter |-> "sse"]
        ELSE /\ Len(last.attempts) = 1
             /\ last.attempts[1].ok <=> last.status = "returned"
             /\ ~last.attempts[1].ok =>
                  last.error = [kind |-> "connect", adapter |-> last.config.type]

\* C18: registerMCPClients handles the configs in order.  Unless
\* continueOnError is false it never throws and returns only after the
\* last config, whatever failed before.  With continueOnError false it
\* throws at the first failing config, which is then the last one handled.
\* The sessions it stored are registered, in the order of the configs,
\* after the ones registered before the call.
C18_BulkContinuesOrAborts ==
    last.op = "registerMCPClients" =>
        /\ last.processed <= last.n
        /\ last.status = "returned" => last.processed = last.n
        /\ IF last.options.continueOnError # "false"
           THEN last.status # "threw"
           ELSE /\ last.status = "threw" <=> last.failedAt # {}
                /\ last.failedAt \subseteq {last.processed}
        /\ listClientIds(manager) = listClientIds(last.before) \o last.stored

\* with continueOnError false the loop stored a session, then threw at a
\* failing config and left a later config unhandled
C18_Witness ==
    /\ last.op = "registerMCPClients"
    /\ last.options.continueOnError = "false"
    /\ last.status = "threw"
    /\ last.stored # <<>>
    /\ last.processed < last.n
    /\ HasClient(manager, last.stored[1])

(***************************************************************************)
(* Properties of createChatHandler's validation (checked under Spec) and   *)
(* of the forced-tool-use prompt (checked under SpecPrompt).               *)
(***************************************************************************)
\* C19: once validateMessages has seen a message list that is empty or not
\* an array, the handler is over with the validation error, and nothing
\* else has happened: no session was opened or registered, no catalog was
\* fetched, no tools were merged, no model option was read and streamText
\* was not invoked.  No other request ends with that error.
C19_ValidationComesFirst ==
    /\ (pc # "start" /\ req.messages \in {"notArray", "empty"}) =>
         /\ pc = "done"
         /\ outcome = [kind |-> "throw",
                       error |-> "Messages must be a non-empty array of UIMessage"]
         /\ manager = NewManager
         /\ catalog = NoCatalog
         /\ clientIds = <<>>
         /\ mcpTools = EmptyTools
         /\ allTools = EmptyTools
         /\ DOMAIN req = {"messages"}
    /\ (/\ outcome.kind = "throw"
        /\ outcome.error = "Messages must be a non-empty array of UIMessage") =>
         req.messages \in {"notArray", "empty"}

\* a request with an empty message list was refused although tool servers
\* were configured
C19_Witness ==
    /\ pc = "done"
    /\ req.messages = "empty"
    /\ outcome.kind = "throw"
    /\ Len(configs) = MaxConfigs
    /\ manager.opened = 0

\* C20: the prompt handed to streamText carries the tool instruction, with
\* the names of all merged tools, exactly when forceToolUse was requested
\* (true) and the merged tool map is not empty; in every other case it is
\* the system prompt as given.  The effective flag is false when the flag
\* was not requested or when no tool exists.
C20_InstructionIffForcedWithTools ==
    (pc = "done" /\ outcome.kind = "stream") =>
        LET requested == req.forceToolUse = "true"
            hasTools == DOMAIN allTools # {}
        IN  /\ outcome.system.base = req.system
            /\ outcome.system.instructed <=> (requested /\ hasTools)
            /\ outcome.system.toolNames =
                  IF requested /\ hasTools THEN DOMAIN allTools ELSE {}
            /\ outcome.forceToolUse <=> (requested /\ hasTools)

\* forced tool use was requested with no tool at all: the flag was
\* downgraded and the given prompt passed on
C20_Witness ==
    /\ pc = "done"
    /\ outcome.kind = "stream"
    /\ req.forceToolUse = "true"
    /\ req.system = "sys"
    /\ allTools = EmptyTools
    /\ ~outcome.forceToolUse
    /\ outcome.system = [base |-> "sys", instructed |-> FALSE, toolNames |-> {}]

(***************************************************************************)
(* Properties of the model selection and of the handler's result, checked  *)
(* under Spec.                                                             *)
(***************************************************************************)
\* the provider createChatHandler hands to getModelConfig
SelectedProvider ==
    IF req.modelProvider = "undefined" THEN "gemini" ELSE req.modelProvider

\* the providers getModelConfig has a case for
KnownProviders == {"gemini", "openai"}

\* C21: a handler that reached getModelConfig with a known provider whose
\* API key is not in the environment ends with the missing-key error; one
\* that reached it with a provider getModelConfig has no case for ends with
\* the unknown-provider error; in both cases streamText was not invoked and
\* the error is what createChatHandler throws.
C21_ModelSelectionErrorsPropagate ==
    FinishRan =>
        /\ (SelectedProvider \in KnownProviders /\ ~req.keySet) =>
              outcome = [kind |-> "throw", error |-> "API key is missing"]
        /\ SelectedProvider \notin KnownProviders =>
              outcome = [kind |-> "throw", error |-> "Unknown provider"]

\* an unknown provider was refused after the tools had been fetched
C21_Witness ==
    /\ FinishRan
    /\ req.modelProvider = "azure"
    /\ outcome = [kind |-> "throw", error |-> "Unknown provider"]
    /\ clientIds # <<>>

\* the API key of the selected provider is in the environment
CredentialPresent == SelectedProvider \in KnownProviders /\ req.keySet

\* C22 as stated: with the provider's key present, every request whose
\* message list is a non-empty array ends with a streaming handle.
C22_NonEmptyHistoryAlwaysStreams ==
    (FinishRan /\ CredentialPresent) => outcome.kind = "stream"

\* C22, amended: with the provider's key present, a request whose message
\* list is a non-empty array ends with a streaming handle exactly when
\* convertToModelMessages accepts the messages, whatever the tool servers
\* did (no server configured, connections refused, tools() throwing, no
\* tool returned) and whatever the frontend tools were.
C22_ValidHistoryAlwaysStreams ==
    (FinishRan /\ CredentialPresent) =>
        /\ req.messagesValid => outcome.kind = "stream"
        /\ ~req.messagesValid =>
              outcome = [kind |-> "throw", error |-> "convertToModelMessages failed"]

\* a stream was returned although every registered tool server failed
C22_Witness ==
    /\ FinishRan
    /\ CredentialPresent
    /\ req.messagesValid
    /\ clientIds # <<>>
    /\ failed = {clientIds[i] : i \in 1..Len(clientIds)}
    /\ outcome.kind = "stream"
    /\ DOMAIN outcome.tools = {"askChatbot"}

(***************************************************************************)
(* Properties of the chat endpoints, checked under SpecRoute.              *)
(***************************************************************************)
\* the failures a client causes with its request, and those it cannot cause
ClientCaused == {"Invalid request body: JSON parsing failed", "Unexpected token",
                 "Messages must be a non-empty array of UIMessage"}
Unexpected == {"API key is missing"}

\* C23: an endpoint that answers a failure answers {error, message} with
\* the title of the status band, with status 400 when the client caused the
\* failure (a body that is not JSON, a message list that is empty or not an
\* array) and with status 500 when the failure is unexpected (the
\* provider's API key is missing).
C23_StatusFollowsFailureKind ==
    response.kind = "error" =>
        /\ response.error = ErrorTitle(response.status)
        /\ response.message \in ClientCaused =>
              response.status = HTTP_STATUS_BAD_REQUEST
        /\ response.message \in Unexpected =>
              response.status = HTTP_STATUS_INTERNAL_SERVER_ERROR

\* the request gave the setting at neither level
ForceNotGiven ==
    /\ body.forceToolUse = "undefined"
    /\ body.metadata.forceToolUse = "undefined"

\* C25: the forceToolUse an endpoint hands to createChatHandler is true when
\* the body has it at neither level, the body-level value when there is one
\* (whatever the metadata says) and the metadata value otherwise; when that
\* value is false the stream is created without tool enforcement and with
\* the system prompt as given, although tools exist.
C25_ForceToolUseDefaultsAndPrecedence ==
    chatOptions.called =>
        /\ ForceNotGiven => chatOptions.forceToolUse = "true"
        /\ body.forceToolUse # "undefined" =>
              chatOptions.forceToolUse = body.forceToolUse
        /\ (body.forceToolUse = "undefined" /\ ~ForceNotGiven) =>
              chatOptions.forceToolUse = body.metadata.forceToolUse
        /\ (chatOptions.forceToolUse = "false" /\ response.kind = "stream") =>
              /\ ~response.stream.forceToolUse
              /\ ~response.stream.system.instructed
        /\ (chatOptions.forceToolUse = "true" /\ response.kind = "stream") =>
              /\ response.stream.forceToolUse
              /\ response.stream.system.instructed

\* the body said false, the metadata true: the stream was not forced
C25_Witness ==
    /\ chatOptions.called
    /\ body.forceToolUse = "false"
    /\ body.metadata.forceToolUse = "true"
    /\ response.kind = "stream"
    /\ DOMAIN response.stream.tools # {}
    /\ ~response.stream.forceToolUse

(***************************************************************************)
(* Properties of the configuration errors, checked under Spec.             *)
(***************************************************************************)
\* initializeMCPClients is about to load the config of an integration whose
\* required environment value is not set
LoadsUnconfigured ==
    /\ pc = "register"
    /\ idx <= Len(configs)
    /\ ~configs[idx].envSet

\* C24: when initializeMCPClients loads the config of an integration whose
\* required environment value (MCP_SERVER_URL, AROBID_BACKEND_URL) is not
\* set, the error is raised there and ends the request: the handler is over
\* and has thrown.
C24_ConfigErrorsEndTheRequest ==
    [][LoadsUnconfigured => (pc' = "done" /\ outcome'.kind = "throw")]_vars

(***************************************************************************)
(* Properties of the sessions a chat request uses, checked under Spec.     *)
(***************************************************************************)
\* C26: while a chat request is processed, no session is registered, no
\* connection to a tool server is opened and none is removed: the registry
\* the request reads is as it was when the request arrived.
C26_RequestLeavesRegistryAlone ==
    /\ manager.clients = <<>>
    /\ manager.opened = 0
    /\ manager.defaultClientId = "null"

(***************************************************************************)
(* Properties of the manager's state between calls, checked under          *)
(* SpecManager.                                                            *)
(***************************************************************************)
\* the connections opened on this manager so far
OpenedConns == 1..manager.opened

\* C27: between calls, every connection that was opened and on which
\* close() has not resolved is held in the registry.
C27_OpenConnectionsAreHeld ==
    last.status # "running" => (OpenedConns \ closed) \subseteq HeldConns(manager)

\* C28: between calls, the default pointer is null or the id of a
\* registered session, and getDefaultClient returns undefined exactly when
\* the pointer is null.
C28_DefaultIsNullOrRegistered ==
    last.status # "running" =>
        /\ manager.defaultClientId = "null"
              \/ HasClient(manager, manager.defaultClientId)
        /\ getDefaultClient(manager) = {} <=> manager.defaultClientId = "null"

\* the default session was removed while another one stayed registered
C28_Witness ==
    /\ last.op = "removeClient"
    /\ last.status = "returned"
    /\ last.before.defaultClientId = last.id
    /\ manager.clients # <<>>
    /\ manager.defaultClientId = "null"
    /\ getDefaultClient(manager) = {}

\* C29: a registerClient call that threw (the transport type is not
\* supported, or the adapter could not connect) left the registered
\* sessions, their order and the default pointer as they were before the
\* call, and stored no connection.
C29_FailedRegisterChangesNothing ==
    (last.op = "registerClient" /\ last.status = "threw") =>
        /\ last.error.kind \in {"unsupported", "connect"}
        /\ manager.clients = last.before.clients
        /\ manager.defaultClientId = last.before.defaultClientId
        /\ closed = last.closedBefore

\* the adapter failed to connect for a config that asked to be the default
\* while another session was registered and the default
C29_Witness ==
    /\ last.op = "registerClient"
    /\ last.status = "threw"
    /\ last.error.kind = "connect"
    /\ last.config.setAsDefault
    /\ manager.clients # <<>>
    /\ manager.defaultClientId # "null"
    /\ manager.defaultClientId # last.config.id

(***************************************************************************)
(* Properties of overlapping calls on one manager, checked under SpecRace. *)
(***************************************************************************)
\* every task's call has settled
AllSettled == \A t \in TaskIds : tasks[t].pc = "done"

\* C30: when overlapping calls have all settled, every connection that was
\* opened is stored in the registry or was closed, and the registry holds
\* one connection per id.
C30_NoConnectionLostInRaces ==
    (tasks # <<>> /\ AllSettled) =>
        /\ (OpenedConns \ closed) \subseteq HeldConns(manager)
        /\ \A i, j \in 1..Len(manager.clients) :
              manager.clients[i].id = manager.clients[j].id => i = j

====
